---------------------------- MODULE Spec2Model ----------------------------
(***************************************************************************)
(* A model of the coastal masking and contour extraction stages of DEA     *)
(* Coastlines: dea_coastlines/vector.py (the primary pipeline) and         *)
(* deacoastlines_statistics.py (the older variant).                        *)
(*                                                                         *)
(* Rasters are functions from pixels <<row, col>> to values.  Each stage   *)
(* of the pipeline is a pure function of its inputs; a specification draws *)
(* the inputs of one stage in its Init and applies the stage in an action. *)
(***************************************************************************)
EXTENDS Integers, Sequences, FiniteSets, TLC

VARIABLES
    pc,                 \* position of the run: "start", then the stage's result
    all_time_ocean,     \* contours_preprocess: ocean-connected all-time water
    persistent_stdev,   \* contours_preprocess: eroded high-stdev mask
    persistent_lowobs,  \* contours_preprocess: eroded low-observation mask
    waterbody_mask,     \* contours_preprocess: rasterised waterbody polygons
    buffer_pixels,      \* contours_preprocess: radius of the coastal buffer
    coastal_mask,       \* contours_preprocess: the coastal buffer it computed
    all_time_mask,      \* contours_preprocess: the diagnostic raster written
    ds,                 \* ocean_masking: True for land pixels, False for water
    tide_points_gdf,    \* ocean_masking: the seed points, as <<x, y>> coordinates
    connectivity,       \* ocean_masking: its connectivity argument
    dilation,           \* ocean_masking: its dilation argument (0 for None)
    ocean_mask,         \* ocean_masking: the mask returned
    land_ds,            \* temporal_masking: its ds, True for land, by <<year, row, col>>
    temporal_mask,      \* temporal_masking: the mask returned
    da,                 \* subpixel_contours: per slice, the lines find_contours traces
    min_vertices,       \* subpixel_contours: its min_vertices argument
    errors,             \* subpixel_contours: its errors argument
    output_path,        \* subpixel_contours: the kind of its output_path argument
    contour_arrays,     \* subpixel_contours: per slice, the lines kept
    contours_gdf,       \* subpixel_contours: the rows returned
    printed,            \* subpixel_contours: the years its printed report names
    exception,          \* subpixel_contours: the exception raised, if any
    written,            \* subpixel_contours: the file written, if any
    line_lengths,       \* generate_vectors: per year, the lengths of its contour lines
    baseline_year,      \* generate_vectors: its baseline_year
    points_gdf,         \* points_on_line: the points returned, by distance along the line
    points_exception,   \* generate_vectors: the exception raised in point sampling, if any
    distances,          \* annual_movements: per year, a point's distance to the contour (1/1000 m)
    index_comp_p1,      \* annual_movements: per year, the year's raster sampled at the point
    index_baseline_p2,  \* annual_movements: per year, the baseline raster sampled on the contour
    max_valid_dist,     \* annual_movements: its max_valid_dist (1/1000 m)
    movement_baseline,  \* annual_movements: its baseline_year
    dist,               \* annual_movements: the point's dist_<year> columns (1/100 m)
    mad_points,         \* outlier_mad: its points, a 1-D array of observations
    thresh,             \* outlier_mad: its thresh, in units of 0.0001
    outliers,           \* outlier_mad: the boolean array returned
    x_years,            \* calculate_regressions: the years of contours_gdf
    points_subset,      \* calculate_regressions: per year, a point's dist_<year> (m)
    climate_subset,     \* calculate_regressions: per year, the climate index soi
    rate_out,           \* calculate_regressions: change_regress against time
    ci_out,             \* calculate_regressions: change_regress against soi
    regress_gdf,        \* calculate_regressions: the point's row returned
    initial_year,       \* all_time_stats: its initial_year
    stats_out,          \* all_time_stats: the statistics returned
    mask_regions,       \* contour_certainty: per region of all_time_mask.tif, its code
    south_latitude,     \* contour_certainty: the latitude of region 1 (degrees)
    annual_contours,    \* contour_certainty: its contours_gdf, rows of year and regions crossed
    certainty_gdf,      \* contour_certainty: the rows returned
    yearly_ds,          \* contours_preprocess: per <<year, row, col>>, the annual index, count and stdev
    gapfill_ds,         \* contours_preprocess: likewise, the three-year gapfill layers
    landcover_water,    \* contours_preprocess: the cleaned land cover water mask
    filled_ds,          \* contours_preprocess: yearly_ds after the gapfill replacement
    thresholded_ds,     \* contours_preprocess: 1 land, 0 water, NaN no data
    all_time,           \* contours_preprocess: the stable all-time land
    annual_mask,        \* contours_preprocess: per year, the ocean-connected mask
    masked_ds,          \* contours_preprocess: the masked water index returned
    raster_paths,       \* load_rasters: per file pattern, the years of its files as glob lists them
    config,             \* generate_vectors: the 'Input files' of its configuration
    smartline_gdf,      \* generate_vectors: the rocky and non-rocky features read
    ds_list,            \* load_rasters: the datasets returned
    run_contours,       \* generate_vectors: the years of its contours_gdf
    run_points,         \* generate_vectors: its points_gdf, None or a table of rows
    artifacts,          \* generate_vectors: the files written to output_dir
    run_exception       \* generate_vectors: the exception that ended the run, if any

maskVars == <<all_time_ocean, persistent_stdev, persistent_lowobs,
              waterbody_mask, buffer_pixels, coastal_mask, all_time_mask>>

oceanVars == <<ds, tide_points_gdf, connectivity, dilation, ocean_mask>>

temporalVars == <<land_ds, temporal_mask>>

contourVars == <<da, min_vertices, errors, output_path, contour_arrays,
                 contours_gdf, printed, exception, written>>

pointVars == <<line_lengths, baseline_year, points_gdf, points_exception>>

moveVars == <<distances, index_comp_p1, index_baseline_p2, max_valid_dist,
              movement_baseline, dist>>

madVars == <<mad_points, thresh, outliers>>

statsVars == <<x_years, points_subset, climate_subset, rate_out, ci_out,
               regress_gdf, initial_year, stats_out>>

\* The variables of the stages that follow contour extraction.
certaintyVars == <<mask_regions, south_latitude, annual_contours, certainty_gdf>>

analysisVars == <<pointVars, moveVars, madVars, statsVars, certaintyVars>>

prepVars == <<yearly_ds, gapfill_ds, landcover_water, filled_ds,
              thresholded_ds, all_time, annual_mask, masked_ds>>

runVars == <<raster_paths, config, smartline_gdf, ds_list, run_contours,
             run_points, artifacts, run_exception>>

pipelineVars == <<prepVars, runVars>>

vars == <<pc, maskVars, oceanVars, temporalVars, contourVars, analysisVars,
          pipelineVars>>

(***************************************************************************)
(* Bounds of the model.                                                    *)
(***************************************************************************)
\* The diagnostic raster is checked on a raster of 1 row and MaskLen columns.
MaskLen == 3
\* Largest coastal buffer radius (buffer_pixels) drawn.
MaxBuffer == 1
\* ocean_masking is checked on rasters of two rows (the fewest with diagonal
\* neighbours) and OceanCols columns, with at most MaxSeeds distinct seed
\* points.
OceanCols == 2
MaxSeeds == 1
\* temporal_masking is checked on stacks of 1 .. MaxYears years of
\* TmRows x TmCols pixels with at most MaxLand land pixel-years.
MaxYears == 2
TmRows == 1
TmCols == 3
MaxLand == 4
\* subpixel_contours is checked on 1 .. MaxSlices slices (years), each with
\* at most MaxLines traced lines of 2 .. MaxVertices vertices.
MaxSlices == 2
MaxLines == 2
MaxVertices == 3
\* Point sampling is checked on 1 .. MaxSampleYears years of contours, each
\* of at most MaxKeptLines lines.
MaxSampleYears == 3
MaxKeptLines == 2
\* annual_movements is checked on one point and 1 .. MaxMoveYears years of
\* contours, the baseline year among them.
MaxMoveYears == 3
\* outlier_mad is checked on 1 .. MaxObs observations drawn from MadValues.
\* Among the observations in TieValues a modified z-score that equals 0.6745
\* is computed without rounding error in binary floating point; with 100
\* among them it is not (0.6745 * 48.5 / 48.5 is above 0.6745).
MaxObs == 5
TieValues == {1, 2, 3, 4, 5}
MadValues == TieValues \cup {100}
\* calculate_regressions and all_time_stats are checked on one point and
\* 1 .. MaxRegYears years of annual coastlines.
MaxRegYears == 4
\* contour_certainty is checked on 0 .. MaxCertYears annual coastlines that
\* cross a mask of MaskRegions regions.
MaxCertYears == 2
MaskRegions == 2

(***************************************************************************)
(* Raster helpers (numpy / skimage).                                       *)
(***************************************************************************)
Pixels(h, w) == (0 .. h - 1) \X (0 .. w - 1)

\* A raster that has not been computed.
NoRaster == << >>

\* The variables of a stage that a specification does not run.
MaskIdle ==
    /\ all_time_ocean = NoRaster
    /\ persistent_stdev = NoRaster
    /\ persistent_lowobs = NoRaster
    /\ waterbody_mask = NoRaster
    /\ buffer_pixels = 0
    /\ coastal_mask = NoRaster
    /\ all_time_mask = NoRaster

OceanIdle ==
    /\ ds = NoRaster
    /\ tide_points_gdf = {}
    /\ connectivity = 0
    /\ dilation = 0
    /\ ocean_mask = NoRaster

TemporalIdle ==
    /\ land_ds = NoRaster
    /\ temporal_mask = NoRaster

ContourIdle ==
    /\ da = << >>
    /\ min_vertices = 0
    /\ errors = "ignore"
    /\ output_path = "none"
    /\ contour_arrays = << >>
    /\ contours_gdf = << >>
    /\ printed = << >>
    /\ exception = "none"
    /\ written = "none"

\* The four raster and contour stages together.
RasterIdle == MaskIdle /\ OceanIdle /\ TemporalIdle /\ ContourIdle

PrepIdle ==
    /\ yearly_ds = NoRaster
    /\ gapfill_ds = NoRaster
    /\ landcover_water = NoRaster
    /\ filled_ds = NoRaster
    /\ thresholded_ds = NoRaster
    /\ all_time = NoRaster
    /\ annual_mask = NoRaster
    /\ masked_ds = NoRaster

\* None, and a table of rows.
None == [type |-> "NoneType", rows |-> << >>]
GeoDataFrame(rows_) == [type |-> "GeoDataFrame", rows |-> rows_]

RunIdle ==
    /\ raster_paths = << >>
    /\ config = << >>
    /\ smartline_gdf = << >>
    /\ ds_list = << >>
    /\ run_contours = << >>
    /\ run_points = None
    /\ artifacts = {}
    /\ run_exception = "none"

PipelineIdle == PrepIdle /\ RunIdle

PointsIdle ==
    /\ line_lengths = << >>
    /\ baseline_year = 0
    /\ points_gdf = << >>
    /\ points_exception = "none"

MoveIdle ==
    /\ distances = << >>
    /\ index_comp_p1 = << >>
    /\ index_baseline_p2 = << >>
    /\ max_valid_dist = 0
    /\ movement_baseline = 0
    /\ dist = << >>

MadIdle ==
    /\ mad_points = << >>
    /\ thresh = 0
    /\ outliers = << >>

\* The stages that follow contour extraction together.
StatsIdle ==
    /\ x_years = << >>
    /\ points_subset = << >>
    /\ climate_subset = << >>
    /\ rate_out = << >>
    /\ ci_out = << >>
    /\ regress_gdf = << >>
    /\ initial_year = 0
    /\ stats_out = << >>

CertaintyIdle ==
    /\ mask_regions = << >>
    /\ south_latitude = 0
    /\ annual_contours = << >>
    /\ certainty_gdf = << >>

AnalysisIdle ==
    PointsIdle /\ MoveIdle /\ MadIdle /\ StatsIdle /\ CertaintyIdle

\* np.full(shape, v)
Full(px, v) == [p \in px |-> v]

\* ~a, a & b on boolean rasters of one shape
NotR(a) == [p \in DOMAIN a |-> ~a[p]]
AndR(a, b) == [p \in DOMAIN a |-> a[p] /\ b[p]]

\* arr[mask] = v : in-place boolean-mask assignment
Assign(arr, mask, v) == [p \in DOMAIN arr |-> IF mask[p] THEN v ELSE arr[p]]

\* skimage.morphology.disk(r): the offsets with dy^2 + dx^2 <= r^2
disk(r) == {d \in (-r .. r) \X (-r .. r) : d[1] * d[1] + d[2] * d[2] <= r * r}

\* skimage.morphology.binary_dilation(image, selem): a pixel is set when the
\* structuring element centred on it meets a set pixel; outside the image
\* counts as unset.
binary_dilation(image, selem) ==
    [p \in DOMAIN image |->
        \E d \in selem :
            LET q == <<p[1] + d[1], p[2] + d[2]>>
            IN  q \in DOMAIN image /\ image[q]]

(***************************************************************************)
(* contours_preprocess: coastal buffer and diagnostic raster.              *)
(***************************************************************************)
\* vector.py coastal_masking._coastal_buffer
_coastal_buffer(ds_, buffer) ==
    LET buffer_ocean == binary_dilation(ds_, buffer)
        buffer_land  == binary_dilation(NotR(ds_), buffer)
    IN  AndR(buffer_ocean, buffer_land)

\* Mutant: the outside of the buffer is written as class 2 (the ocean side
\* class of the older variant).
AllTimeMaskVector_Class2(coastal, stdev, lowobs, waterbody) ==
    LET m0 == Full(DOMAIN coastal, 0)
        m1 == Assign(m0, NotR(coastal), 2)
        m2 == Assign(m1, AndR(stdev, coastal), 4)
        m3 == Assign(m2, AndR(lowobs, coastal), 5)
        m4 == Assign(m3, AndR(waterbody, coastal), 3)
    IN  m4

\* Mutant: the writes in the order of the older variant (3, then 4, then 5).
AllTimeMaskVector_OldOrder(coastal, stdev, lowobs, waterbody) ==
    LET m0 == Full(DOMAIN coastal, 0)
        m1 == Assign(m0, NotR(coastal), 1)
        m2 == Assign(m1, AndR(waterbody, coastal), 3)
        m3 == Assign(m2, AndR(stdev, coastal), 4)
        m4 == Assign(m3, AndR(lowobs, coastal), 5)
    IN  m4

\* Mutant: the low-observation class is written before the stdev class.
AllTimeMaskVector_LowobsFirst(coastal, stdev, lowobs, waterbody) ==
    LET m0 == Full(DOMAIN coastal, 0)
        m1 == Assign(m0, NotR(coastal), 1)
        m2 == Assign(m1, AndR(lowobs, coastal), 5)
        m3 == Assign(m2, AndR(stdev, coastal), 4)
        m4 == Assign(m3, AndR(waterbody, coastal), 3)
    IN  m4

\* vector.py contours_preprocess, the all time mask: the four writes in the
\* order of the code, each overwriting what the earlier ones stored.
AllTimeMaskVector(coastal, stdev, lowobs, waterbody) ==
    LET m0 == Full(DOMAIN coastal, 0)
        m1 == Assign(m0, NotR(coastal), 1)
        m2 == Assign(m1, AndR(stdev, coastal), 4)
        m3 == Assign(m2, AndR(lowobs, coastal), 5)
        m4 == Assign(m3, AndR(waterbody, coastal), 3)
    IN  m4

\* deacoastlines_statistics.py contours_preprocess, the all time mask.
AllTimeMaskStatistics(ocean, buffer, stdev, lowobs, waterbody) ==
    LET buffer_ocean   == binary_dilation(ocean, buffer)
        buffer_land    == binary_dilation(NotR(ocean), buffer)
        coastal_buffer == AndR(buffer_ocean, buffer_land)
        m0 == Full(DOMAIN ocean, 0)
        m1 == Assign(m0, AndR(buffer_land, NotR(coastal_buffer)), 1)
        m2 == Assign(m1, AndR(buffer_ocean, NotR(coastal_buffer)), 2)
        m3 == Assign(m2, AndR(waterbody, coastal_buffer), 3)
        m4 == Assign(m3, AndR(stdev, coastal_buffer), 4)
        m5 == Assign(m4, AndR(lowobs, coastal_buffer), 5)
    IN  m5

(***************************************************************************)
(* Connected components (skimage.measure.label).                           *)
(***************************************************************************)
\* Two pixels are neighbours under skimage's connectivity c when they differ
\* by at most one step along every axis and along at most c axes.
Adjacent(p, q, c) ==
    /\ p # q
    /\ \A i \in DOMAIN p : p[i] - q[i] \in -1 .. 1
    /\ Cardinality({i \in DOMAIN p : p[i] # q[i]}) <= c

\* The indices within one step of p along every axis (2-D or 3-D arrays).
Around(p) ==
    IF Len(p) = 2
    THEN {<<p[1] + a, p[2] + b>> : a \in -1 .. 1, b \in -1 .. 1}
    ELSE {<<p[1] + a, p[2] + b, p[3] + e>> :
              a \in -1 .. 1, b \in -1 .. 1, e \in -1 .. 1}

Neighbours(p, fg, c) == {q \in Around(p) \cap fg : Adjacent(p, q, c)}

\* The pixels of fg connected to S, found by flooding from the frontier F.
RECURSIVE Grow(_, _, _, _)
Grow(S, F, fg, c) ==
    LET new == UNION {Neighbours(p, fg, c) : p \in F} \ S
    IN  IF new = {} THEN S ELSE Grow(S \cup new, new, fg, c)

\* Raster-scan (C order) comparison of pixel indices.
RECURSIVE ScanBefore(_, _, _)
ScanBefore(p, q, i) ==
    IF i > Len(p) THEN FALSE
    ELSE IF p[i] # q[i] THEN p[i] < q[i]
    ELSE ScanBefore(p, q, i + 1)

FirstPixel(S) == CHOOSE p \in S : \A q \in S : p = q \/ ScanBefore(p, q, 1)

\* The connected components of fg, in raster-scan order of their first pixel.
RECURSIVE Components(_, _)
Components(fg, c) ==
    IF fg = {} THEN << >>
    ELSE LET p == FirstPixel(fg)
             k == Grow({p}, {p}, fg, c)
         IN  <<k>> \o Components(fg \ k, c)

\* skimage.measure.label(image, background, return_num=False, connectivity):
\* pixels equal to background get 0, every other pixel the number of its
\* connected component, components numbered from 1 in raster-scan order.
label(image, background, c) ==
    LET fg    == {p \in DOMAIN image : image[p] # background}
        comps == Components(fg, c)
    IN  [p \in DOMAIN image |->
            IF p \notin fg THEN 0
            ELSE CHOOSE i \in 1 .. Len(comps) : p \in comps[i]]

(***************************************************************************)
(* ocean_masking.                                                          *)
(***************************************************************************)
\* Coordinates are counted in half pixels along each axis, ascending with
\* the pixel index: pixel i has its centre at coordinate 2 * i.
LastRow(image) == CHOOSE r \in {p[1] : p \in DOMAIN image} :
                      \A p \in DOMAIN image : p[1] <= r
LastCol(image) == CHOOSE k \in {p[2] : p \in DOMAIN image} :
                      \A p \in DOMAIN image : p[2] <= k

\* The value interp() gives outside the coordinates of the raster.
NaN == -1

\* Mutant: a point beyond the outermost pixel centres takes the value of the
\* nearest edge pixel instead of NaN.
InterpNearest_Clamp(blobs, pt) ==
    LET Clamp(v, hi) == IF v < 0 THEN 0 ELSE IF v > hi THEN hi ELSE v
    IN  blobs[<<Clamp(pt[2], 2 * LastRow(blobs)) \div 2,
                Clamp(pt[1], 2 * LastCol(blobs)) \div 2>>]

\* blobs.interp(x=x, y=y, method='nearest') at one point <<x, y>>: the value
\* of the nearest pixel centre (the lower one when two are equally near),
\* NaN beyond the first or last pixel centre.
InterpNearest(blobs, pt) ==
    LET x == pt[1]
        y == pt[2]
    IN  IF /\ 0 <= x /\ x <= 2 * LastCol(blobs)
           /\ 0 <= y /\ y <= 2 * LastRow(blobs)
        THEN blobs[<<y \div 2, x \div 2>>]
        ELSE NaN

\* Mutant: the background label 0 is not removed from the seeded labels.
ocean_masking_KeepZero(ds_, points, connectivity_, dilation_) ==
    LET blobs       == label(ds_, TRUE, 1)
        ocean_blobs == {InterpNearest(blobs, pt) : pt \in points}
        mask        == [p \in DOMAIN ds_ |-> blobs[p] \in ocean_blobs]
    IN  IF dilation_ # 0 THEN binary_dilation(mask, disk(dilation_)) ELSE mask

\* vector.py ocean_masking.  The water (False) pixels are labelled with
\* label(ds, 1, False, 1): background 1, connectivity 1; the connectivity
\* argument of ocean_masking is not used.
ocean_masking(ds_, points, connectivity_, dilation_) ==
    LET blobs       == label(ds_, TRUE, 1)
        ocean_blobs == {InterpNearest(blobs, pt) : pt \in points}
        mask        == [p \in DOMAIN ds_ |-> blobs[p] \in ocean_blobs \ {0}]
    IN  IF dilation_ # 0 THEN binary_dilation(mask, disk(dilation_)) ELSE mask

\* The dilation contours_preprocess passes for the annual masks.
AnnualDilation == 3

OceanPixels == Pixels(2, OceanCols)

\* Seed coordinates: every half pixel from half a pixel before the first
\* pixel centre to half a pixel after the last.
SeedCoords == (-1 .. 2 * OceanCols - 1) \X (-1 .. 3)

\* The subsets of S with at most k elements.
RECURSIVE SetsUpTo(_, _)
SetsUpTo(S, k) ==
    IF k = 0 THEN {{}}
    ELSE LET prev == SetsUpTo(S, k - 1)
         IN  prev \cup {T \cup {x} : T \in prev, x \in S}

InitOcean ==
    /\ pc = "start"
    /\ ds \in [OceanPixels -> BOOLEAN]
    /\ tide_points_gdf \in SetsUpTo(SeedCoords, MaxSeeds)
    /\ connectivity = 0
    /\ dilation = 0
    /\ ocean_mask = NoRaster
    /\ MaskIdle
    /\ TemporalIdle
    /\ ContourIdle
    /\ AnalysisIdle
    /\ PipelineIdle

\* One call of ocean_masking, with the connectivity (1: 4 neighbours,
\* 2: 8 neighbours) and the dilation (None, or the annual dilation) the
\* caller passes.
OceanMasking ==
    /\ pc = "start"
    /\ \E c \in {1, 2}, d \in {0, AnnualDilation} :
        /\ connectivity' = c
        /\ dilation' = d
        /\ ocean_mask' = ocean_masking(ds, tide_points_gdf, c, d)
    /\ pc' = "ocean"
    /\ UNCHANGED <<ds, tide_points_gdf>>
    /\ UNCHANGED <<maskVars, temporalVars, contourVars, analysisVars>>
    /\ UNCHANGED pipelineVars

NextOcean == OceanMasking

SpecOcean == InitOcean /\ [][NextOcean]_vars

(***************************************************************************)
(* temporal_masking.                                                       *)
(***************************************************************************)
\* The number of axes of an array.
Ndim(image) == Len(CHOOSE p \in DOMAIN image : TRUE)

\* ds.shift(year=n, fill_value=False) at index k: the value n years earlier,
\* False where the series has no such year.
Shift(stack, n, k) ==
    LET src == <<k[1] - n, k[2], k[3]>>
    IN  IF src \in DOMAIN stack THEN stack[src] ELSE FALSE

\* temporal_masking._noncontiguous for the slice of year t: the regions of
\* regionprops are the pixels of the slice that share a label; a region whose
\* maximum intensity is 0 is removed.
_noncontiguous(labels, intensity, t) ==
    LET slice      == {k \in DOMAIN labels : k[1] = t}
        region(l)  == {k \in slice : labels[k] = l}
        contiguous == {l \in {labels[k] : k \in slice} \ {0} :
                          \A k \in region(l) : intensity[k] = 0}
    IN  [k \in slice |-> labels[k] \notin contiguous]

\* Mutant: the neighbouring years are combined with "and" instead of "or".
temporal_masking_BothNeighbours(ds_) ==
    LET labelled_ds == label(ds_, FALSE, Ndim(ds_))
        masked_neighbours ==
            [k \in DOMAIN ds_ |->
                IF Shift(ds_, -1, k) /\ Shift(ds_, 1, k) THEN 1 ELSE 0]
    IN  [k \in DOMAIN ds_ |->
            _noncontiguous(labelled_ds, masked_neighbours, k[1])[k]]

\* vector.py temporal_masking.  label(ds, None, 0) is applied to the whole
\* stack: background 0 and, with connectivity None, the full connectivity of
\* the array's number of axes, the year axis included.
temporal_masking(ds_) ==
    LET labelled_ds == label(ds_, FALSE, Ndim(ds_))
        masked_neighbours ==
            [k \in DOMAIN ds_ |->
                IF Shift(ds_, -1, k) \/ Shift(ds_, 1, k) THEN 1 ELSE 0]
    IN  [k \in DOMAIN ds_ |->
            _noncontiguous(labelled_ds, masked_neighbours, k[1])[k]]

Cells(years) == (0 .. years - 1) \X (0 .. TmRows - 1) \X (0 .. TmCols - 1)

InitTemporal ==
    /\ pc = "start"
    /\ \E years \in 1 .. MaxYears :
        \E L \in SetsUpTo(Cells(years), MaxLand) :
            land_ds = [k \in Cells(years) |-> k \in L]
    /\ temporal_mask = NoRaster
    /\ MaskIdle
    /\ OceanIdle
    /\ ContourIdle
    /\ AnalysisIdle
    /\ PipelineIdle

TemporalMasking ==
    /\ pc = "start"
    /\ temporal_mask' = temporal_masking(land_ds)
    /\ pc' = "temporal"
    /\ UNCHANGED land_ds
    /\ UNCHANGED <<maskVars, oceanVars, contourVars, analysisVars>>
    /\ UNCHANGED pipelineVars

NextTemporal == TemporalMasking

SpecTemporal == InitTemporal /\ [][NextTemporal]_vars

(***************************************************************************)
(* subpixel_contours (deacoastlines_statistics.py), in the mode with one   *)
(* z-value and one array per year.  A traced line is modelled by its       *)
(* number of vertices, a geometry by the sequence of its lines, a slice by *)
(* the lines find_contours traces in it.  The slices are keyed by their    *)
(* year, 1 .. n; str(year)[0:10] keeps a year label whole.                 *)
(***************************************************************************)
\* contours_to_multiline: the lines of a slice that pass the vertex test
\* i.shape[0] > min_vertices, as one MultiLineString.
contours_to_multiline(da_i, min_vertices_) ==
    SelectSeq(da_i, LAMBDA n : n > min_vertices_)

\* geometry.is_empty
is_empty(geometry) == geometry = << >>

\* Mutant: the test for no valid contour at all is made only when
\* errors is 'raise'.
ContourException_OnlyWhenRaise(empty_contours, errors_) ==
    IF errors_ = "raise" /\ \E i \in DOMAIN empty_contours : empty_contours[i]
    THEN IF \A i \in DOMAIN empty_contours : empty_contours[i]
         THEN "no_valid_contours" ELSE "failed_contours"
    ELSE "none"

\* The exception the checks after "Drop empty timesteps" raise, if any.
ContourException(empty_contours, errors_) ==
    IF \A i \in DOMAIN empty_contours : empty_contours[i]
    THEN "no_valid_contours"
    ELSE IF (\E i \in DOMAIN empty_contours : empty_contours[i])
            /\ errors_ = "raise"
    THEN "failed_contours"
    ELSE "none"

\* The traced lines of one slice: find_contours lists them in an order that
\* plays no part here, so they are drawn in order of vertex count.
TracedLines ==
    {l \in UNION {[1 .. n -> 2 .. MaxVertices] : n \in 0 .. MaxLines} :
        \A i \in 1 .. Len(l) - 1 : l[i] <= l[i + 1]}

InitContours ==
    /\ pc = "start"
    /\ da \in UNION {[1 .. n -> TracedLines] : n \in 1 .. MaxSlices}
    /\ min_vertices = 0
    /\ errors = "ignore"
    /\ output_path = "none"
    /\ contour_arrays = << >>
    /\ contours_gdf = << >>
    /\ printed = << >>
    /\ exception = "none"
    /\ written = "none"
    /\ MaskIdle
    /\ OceanIdle
    /\ TemporalIdle
    /\ AnalysisIdle
    /\ PipelineIdle

\* One call of subpixel_contours.
SubpixelContours ==
    /\ pc = "start"
    /\ \E mv \in 2 .. MaxVertices,
          er \in {"raise", "ignore", "other"},
          op \in {"none", "geojson", "shp", "other"} :
        LET arrays == [i \in DOMAIN da |-> contours_to_multiline(da[i], mv)]
            rows   == [i \in DOMAIN da |-> [year |-> i, geometry |-> arrays[i]]]
            empty_contours == [i \in DOMAIN da |-> is_empty(rows[i].geometry)]
            any    == \E i \in DOMAIN da : empty_contours[i]
            years  == [i \in DOMAIN da |-> i]
            failed == SelectSeq(years, LAMBDA y : empty_contours[y])
            kept   == SelectSeq(rows, LAMBDA r : ~is_empty(r.geometry))
            exc    == ContourException(empty_contours, er)
        IN  /\ min_vertices' = mv
            /\ errors' = er
            /\ output_path' = op
            /\ contour_arrays' = arrays
            /\ exception' = exc
            /\ IF exc # "none"
               THEN /\ pc' = "raised"
                    /\ contours_gdf' = << >>
                    /\ printed' = << >>
                    /\ written' = "none"
               ELSE /\ pc' = "returned"
                    /\ contours_gdf' = kept
                    /\ printed' = IF any /\ er = "ignore" THEN failed ELSE << >>
                    /\ written' = IF op \in {"geojson", "shp"} THEN op ELSE "none"
    /\ UNCHANGED da
    /\ UNCHANGED <<maskVars, oceanVars, temporalVars, analysisVars>>
    /\ UNCHANGED pipelineVars

NextContours == SubpixelContours

SpecContours == InitContours /\ [][NextContours]_vars

(***************************************************************************)
(* Claims about ocean_masking.                                             *)
(***************************************************************************)
\* A seed point lies on the grid when it is not beyond the outermost pixel
\* centres; the pixel it falls on is then the one with the nearest centre.
OnGrid(pt) == /\ pt[1] \in 0 .. 2 * (OceanCols - 1)
              /\ pt[2] \in 0 .. 2
CellOf(pt) == <<pt[2] \div 2, pt[1] \div 2>>

WaterPixels == {p \in OceanPixels : ~ds[p]}

\* There is a path of neighbouring pixels of S from a to b.
RECURSIVE Linked(_, _, _, _)
Linked(a, b, S, c) ==
    \/ a = b
    \/ \E q \in S \ {a} : Adjacent(a, q, c) /\ Linked(q, b, S \ {a}, c)

\* Water pixel p is in a component, under connectivity c, that holds a seed.
InSeededComponent(p, c) ==
    /\ p \in WaterPixels
    /\ \E pt \in tide_points_gdf :
        /\ OnGrid(pt)
        /\ CellOf(pt) \in WaterPixels
        /\ Linked(p, CellOf(pt), WaterPixels, c)

\* C4: without dilation ocean_masking returns True for exactly the water
\* pixels of the (4-neighbour) connected water components that hold a seed
\* point; the pixels of unseeded components and the land pixels are False.
C4_SeededComponentsExactly ==
    (pc = "ocean" /\ dilation = 0) =>
        \A p \in OceanPixels : ocean_mask[p] <=> InSeededComponent(p, 1)

\* C4 witness: a call without dilation on a raster with land, a seeded water
\* component and an unseeded water component.
C4_Witness ==
    /\ pc = "ocean"
    /\ dilation = 0
    /\ \E p \in OceanPixels : ds[p]
    /\ \E p, q \in WaterPixels : ocean_mask[p] /\ ~ocean_mask[q]

\* C5: the connectivity argument sets the adjacency rule: without dilation
\* the mask is the seeded components under 4 neighbours when connectivity
\* is 1 and under 8 neighbours when it is 2, so that a seed selects a water
\* pixel touching its own only diagonally under the 8-neighbour setting.
C5_ConnectivityArgumentSetsAdjacency ==
    (pc = "ocean" /\ dilation = 0) =>
        \A p \in OceanPixels :
            ocean_mask[p] <=> InSeededComponent(p, connectivity)

\* A seed that lies off the grid or on a land pixel.
IgnoredSeed(pt) == ~OnGrid(pt) \/ ds[CellOf(pt)]

\* C6: a seed off the grid or on land selects nothing: the mask equals the
\* mask computed without that seed; and when every seed is such a seed the
\* mask is all False, with or without dilation.
C6_IgnoredSeedsSelectNothing ==
    pc = "ocean" =>
        /\ DOMAIN ocean_mask = OceanPixels
        /\ \A pt \in tide_points_gdf :
            IgnoredSeed(pt) =>
                ocean_mask = ocean_masking(ds, tide_points_gdf \ {pt},
                                           connectivity, dilation)
        /\ (\A pt \in tide_points_gdf : IgnoredSeed(pt)) =>
                \A p \in OceanPixels : ~ocean_mask[p]

\* C6 witness: a dilated call on a raster with water whose seeds all lie off
\* the grid or on land, with at least one seed.
C6_Witness ==
    /\ pc = "ocean"
    /\ dilation # 0
    /\ WaterPixels # {}
    /\ tide_points_gdf # {}
    /\ \A pt \in tide_points_gdf : IgnoredSeed(pt)

(***************************************************************************)
(* Claims about temporal_masking.                                          *)
(***************************************************************************)
\* The land pixels of year t's slice.
SliceLand(t) == {k \in DOMAIN land_ds : k[1] = t /\ land_ds[k]}

\* Pixel k is land in the year before or the year after its own.
NeighbourLand(k) ==
    \E n \in {-1, 1} :
        LET q == <<k[1] + n, k[2], k[3]>>
        IN  q \in DOMAIN land_ds /\ land_ds[q]

\* The blob of land pixel k within its own year's slice (8 neighbours).
BlobInSlice(k) == {q \in SliceLand(k[1]) : Linked(k, q, SliceLand(k[1]), 2)}

\* C7: a land pixel is kept if and only if its blob, a connected component
\* of the land pixels of its own year's slice, has a pixel that is land in
\* the previous or the next year.
C7_KeptIffOwnBlobOverlaps ==
    pc = "temporal" =>
        \A k \in DOMAIN land_ds :
            land_ds[k] =>
                (temporal_mask[k] <=> \E q \in BlobInSlice(k) : NeighbourLand(q))

(***************************************************************************)
(* Claims about subpixel_contours.                                         *)
(***************************************************************************)
ContoursDone == pc \in {"returned", "raised"}

\* C8: a traced line is discarded if and only if it has fewer than
\* min_vertices vertices; a line with exactly min_vertices vertices is kept.
C8_KeptIffAtLeastMinVertices ==
    ContoursDone =>
        \A i \in DOMAIN da :
            contour_arrays[i] = SelectSeq(da[i], LAMBDA n : n >= min_vertices)

AllEmpty == \A i \in DOMAIN contour_arrays : is_empty(contour_arrays[i])

\* C9: when every slice yields an empty geometry the call raises, whatever
\* errors is, and writes no file; when some slice yields a non-empty
\* geometry and errors is 'ignore' it does not raise.
C9_RaisesIffNothingValid ==
    ContoursDone =>
        /\ AllEmpty => (pc = "raised" /\ written = "none")
        /\ (~AllEmpty /\ errors = "ignore") => pc = "returned"

\* C9 witness: a call with errors 'ignore' and a shapefile path has raised
\* on slices that all traced a line, none of which passed the vertex test.
C9_Witness ==
    /\ pc = "raised"
    /\ errors = "ignore"
    /\ output_path = "shp"
    /\ Len(da) >= 2
    /\ \A i \in DOMAIN da : da[i] # << >>
    /\ AllEmpty

\* The years of the rows returned.
ReturnedYears == {contours_gdf[j].year : j \in DOMAIN contours_gdf}
PrintedYears == {printed[j] : j \in DOMAIN printed}

\* C10: whenever the call returns, whatever errors is, every requested year
\* is a returned row with a non-empty geometry or is named in the printed
\* 'Failed to generate contours' report, and no returned row is empty.
C10_EveryYearAccountedFor ==
    pc = "returned" =>
        /\ \A i \in DOMAIN da : i \in ReturnedYears \/ i \in PrintedYears
        /\ \A j \in DOMAIN contours_gdf : ~is_empty(contours_gdf[j].geometry)

MaskPixels == Pixels(1, MaskLen)
BoolRasters(px) == [px -> BOOLEAN]

InitMask ==
    /\ pc = "start"
    /\ all_time_ocean \in BoolRasters(MaskPixels)
    /\ persistent_stdev \in BoolRasters(MaskPixels)
    /\ persistent_lowobs \in BoolRasters(MaskPixels)
    /\ waterbody_mask \in BoolRasters(MaskPixels)
    /\ buffer_pixels \in 1 .. MaxBuffer
    /\ coastal_mask = NoRaster
    /\ all_time_mask = NoRaster
    /\ OceanIdle
    /\ TemporalIdle
    /\ ContourIdle
    /\ AnalysisIdle
    /\ PipelineIdle

\* contours_preprocess of vector.py, from the all-time ocean mask onwards.
ContoursPreprocessVector ==
    /\ pc = "start"
    /\ coastal_mask' = _coastal_buffer(all_time_ocean, disk(buffer_pixels))
    /\ all_time_mask' = AllTimeMaskVector(coastal_mask', persistent_stdev,
                                          persistent_lowobs, waterbody_mask)
    /\ pc' = "vector"
    /\ UNCHANGED <<all_time_ocean, persistent_stdev, persistent_lowobs,
                   waterbody_mask, buffer_pixels>>
    /\ UNCHANGED <<oceanVars, temporalVars, contourVars, analysisVars>>
    /\ UNCHANGED pipelineVars

\* contours_preprocess of deacoastlines_statistics.py, likewise.
ContoursPreprocessStatistics ==
    /\ pc = "start"
    /\ coastal_mask' = _coastal_buffer(all_time_ocean, disk(buffer_pixels))
    /\ all_time_mask' = AllTimeMaskStatistics(all_time_ocean,
                            disk(buffer_pixels), persistent_stdev,
                            persistent_lowobs, waterbody_mask)
    /\ pc' = "statistics"
    /\ UNCHANGED <<all_time_ocean, persistent_stdev, persistent_lowobs,
                   waterbody_mask, buffer_pixels>>
    /\ UNCHANGED <<oceanVars, temporalVars, contourVars, analysisVars>>
    /\ UNCHANGED pipelineVars

NextMask == ContoursPreprocessVector \/ ContoursPreprocessStatistics

SpecMask == InitMask /\ [][NextMask]_vars

(***************************************************************************)
(* Claims about the diagnostic raster.                                     *)
(***************************************************************************)
MaskDone == pc \in {"vector", "statistics"}

\* The classes 3, 4, 5 that apply to pixel p.
ClassesAt(p) ==
    {c \in {3, 4, 5} : \/ c = 3 /\ waterbody_mask[p]
                       \/ c = 4 /\ persistent_stdev[p]
                       \/ c = 5 /\ persistent_lowobs[p]}

MaxOf(S) == CHOOSE m \in S : \A x \in S : x <= m

\* C1 as stated: in both implementations every pixel of the diagnostic
\* raster holds one of the codes 0, 1, 3, 4, 5.
C1_FiveCodesBothImplementations ==
    MaskDone =>
        /\ DOMAIN all_time_mask = MaskPixels
        /\ \A p \in MaskPixels : all_time_mask[p] \in {0, 1, 3, 4, 5}

\* C1 amended: every pixel holds exactly one code; in vector.py the code is
\* one of 0, 1, 3, 4, 5, and in deacoastlines_statistics.py it is one of
\* 0, 1, 2, 3, 4, 5, where 2 is stored exactly on the pixels outside the
\* coastal buffer that lie on the ocean side.
C1_CodesPerImplementation ==
    /\ pc = "vector" =>
        /\ DOMAIN all_time_mask = MaskPixels
        /\ \A p \in MaskPixels : all_time_mask[p] \in {0, 1, 3, 4, 5}
    /\ pc = "statistics" =>
        /\ DOMAIN all_time_mask = MaskPixels
        /\ \A p \in MaskPixels :
            /\ all_time_mask[p] \in {0, 1, 2, 3, 4, 5}
            /\ all_time_mask[p] = 2 <=> (~coastal_mask[p] /\ all_time_ocean[p])

\* C1 witness: the older variant has run on a raster with a pixel on the
\* ocean side outside the buffer and a pixel inside it where all of the
\* waterbody, stdev and low-observation masks are set.
C1_Witness ==
    /\ pc = "statistics"
    /\ \E p \in MaskPixels : ~coastal_mask[p] /\ all_time_ocean[p]
    /\ \E p \in MaskPixels : coastal_mask[p] /\ ClassesAt(p) = {3, 4, 5}

\* C2: in vector.py a pixel outside the buffer is 1; inside the buffer it
\* is 3 if waterbody-excluded, otherwise 5 if persistently low-observation,
\* otherwise 4 if persistently high-stdev, otherwise 0.
C2_WriteOrderDecidesCode ==
    pc = "vector" =>
        \A p \in MaskPixels :
            all_time_mask[p] =
                IF ~coastal_mask[p] THEN 1
                ELSE IF waterbody_mask[p] THEN 3
                ELSE IF persistent_lowobs[p] THEN 5
                ELSE IF persistent_stdev[p] THEN 4
                ELSE 0

\* C2 witness: vector.py has run, one pixel lies outside the buffer with
\* masks set, and an in-buffer pixel has all three masks set.
C2_Witness ==
    /\ pc = "vector"
    /\ \E p \in MaskPixels : ~coastal_mask[p] /\ ClassesAt(p) # {}
    /\ \E p \in MaskPixels : coastal_mask[p] /\ ClassesAt(p) = {3, 4, 5}
    /\ \E p \in MaskPixels : coastal_mask[p] /\ ClassesAt(p) = {4, 5}

\* C3 as stated: in vector.py, when two or more of the classes 3, 4, 5
\* apply to an in-buffer pixel, the highest class code is stored.
C3_HigherCodeStored ==
    pc = "vector" =>
        \A p \in MaskPixels :
            (coastal_mask[p] /\ Cardinality(ClassesAt(p)) >= 2)
                => all_time_mask[p] = MaxOf(ClassesAt(p))

\* C3 amended: in vector.py, when two or more of the classes apply to an
\* in-buffer pixel, the class written last is stored: 3 whenever the pixel
\* is waterbody-excluded (also over 4 and 5), and 5 over 4 otherwise.
C3_LastWrittenStored ==
    pc = "vector" =>
        \A p \in MaskPixels :
            (coastal_mask[p] /\ Cardinality(ClassesAt(p)) >= 2)
                => all_time_mask[p] = (IF 3 \in ClassesAt(p) THEN 3 ELSE 5)

\* C3 witness: vector.py has run and an in-buffer pixel is both
\* waterbody-excluded and low-observation, another both stdev and
\* low-observation only.
C3_Witness ==
    /\ pc = "vector"
    /\ \E p \in MaskPixels : coastal_mask[p] /\ ClassesAt(p) = {3, 5}
    /\ \E p \in MaskPixels : coastal_mask[p] /\ ClassesAt(p) = {4, 5}

(***************************************************************************)
(* outlier_mad.  Observations are integers; thresh is counted in units of  *)
(* 0.0001 (3.5 is 35000).  The comparison of the modified z-score with     *)
(* thresh is made as the doubles of numpy make it, with naturals of any    *)
(* size (a sequence of digits to the base BigBase, lowest first, no        *)
(* leading zero) for the significands.                                     *)
(***************************************************************************)
BigBase == 10000

RECURSIVE Big(_)
Big(n) == IF n = 0 THEN << >> ELSE <<n % BigBase>> \o Big(n \div BigBase)

RECURSIVE BigAdd(_, _, _)
BigAdd(a, b, carry) ==
    IF a = << >> /\ b = << >> THEN Big(carry)
    ELSE LET x == IF a = << >> THEN 0 ELSE Head(a)
             y == IF b = << >> THEN 0 ELSE Head(b)
             t == x + y + carry
         IN  <<t % BigBase>> \o BigAdd(IF a = << >> THEN a ELSE Tail(a),
                                       IF b = << >> THEN b ELSE Tail(b),
                                       t \div BigBase)

\* a * m + carry for a digit m
RECURSIVE BigScale(_, _, _)
BigScale(a, m, carry) ==
    IF m = 0 THEN << >>
    ELSE IF a = << >> THEN Big(carry)
    ELSE LET t == Head(a) * m + carry
         IN  <<t % BigBase>> \o BigScale(Tail(a), m, t \div BigBase)

RECURSIVE BigMul(_, _)
BigMul(a, b) ==
    IF a = << >> \/ b = << >> THEN << >>
    ELSE LET rest == BigMul(a, Tail(b))
         IN  BigAdd(BigScale(a, Head(b), 0),
                    IF rest = << >> THEN rest ELSE <<0>> \o rest, 0)

RECURSIVE BigLess(_, _)
BigLess(a, b) ==
    IF Len(a) # Len(b) THEN Len(a) < Len(b)
    ELSE IF a = << >> THEN FALSE
    ELSE IF a[Len(a)] # b[Len(b)] THEN a[Len(a)] < b[Len(b)]
    ELSE BigLess(SubSeq(a, 1, Len(a) - 1), SubSeq(b, 1, Len(b) - 1))

\* The k-th smallest element of a sequence under the strict order less.
KthSmallest(seq, k, less(_, _)) ==
    LET below(i)   == Cardinality({j \in DOMAIN seq : less(seq[j], seq[i])})
        notabove(i) == Cardinality({j \in DOMAIN seq : ~less(seq[i], seq[j])})
    IN  seq[CHOOSE i \in DOMAIN seq : below(i) < k /\ k <= notabove(i)]

\* Twice np.median(values): the middle value, or the mean of the two middle
\* values of an even number of values.
Median2(values) ==
    LET n  == Len(values)
        lt(a, b) == a < b
    IN  KthSmallest(values, (n + 1) \div 2, lt)
          + KthSmallest(values, n \div 2 + 1, lt)

\* points[:, None]: a 1-D array as a column.
Column(values) == [i \in DOMAIN values |-> <<values[i]>>]

\* The 0.6745 of the modified z-score, in units of 0.0001.
ZScale == 6745

\* The square of an integer.
BigSquare(v) ==
    LET m == IF v < 0 THEN -v ELSE v
    IN  IF m < 40000 THEN Big(m * m) ELSE BigMul(Big(m), Big(m))

RECURSIVE GCD(_, _)
GCD(a, b) == IF b = 0 THEN a ELSE GCD(b, a % b)

\* The quotient and the remainder of a by m, for 0 < m < 200000.
RECURSIVE BigDivMod(_, _)
BigDivMod(a, m) ==
    IF a = << >> THEN <<a, 0>>
    ELSE LET top == BigDivMod(Tail(a), m)
             cur == top[2] * BigBase + Head(a)
         IN  <<IF top[1] = << >> /\ cur \div m = 0 THEN << >>
               ELSE <<cur \div m>> \o top[1],
               cur % m>>

\* a * 2^k and the whole part of a / 2^k.
RECURSIVE ShiftLeft(_, _)
ShiftLeft(a, k) ==
    IF k = 0 THEN a
    ELSE IF k > 13 THEN ShiftLeft(BigScale(a, 8192, 0), k - 13)
    ELSE BigScale(a, 2^k, 0)

RECURSIVE ShiftRight(_, _)
ShiftRight(a, k) ==
    IF k = 0 THEN a
    ELSE IF k > 13 THEN ShiftRight(BigDivMod(a, 8192)[1], k - 13)
    ELSE BigDivMod(a, 2^k)[1]

\* The square of a natural of any size.
BigSquareOf(a) == BigMul(a, a)

\* The number of binary digits of a.
RECURSIVE Bits(_)
Bits(a) == IF a = << >> THEN 0
           ELSE IF Len(a) > 1 THEN 13 + Bits(ShiftRight(a, 13))
           ELSE 1 + Bits(Big(Head(a) \div 2))

\* The double nearest to a positive number (round to nearest, ties to even)
\* as <<m, x>>, the double m * 2^x with m below 2^53 or equal to it.  The
\* number is (a, plus a fraction below 1 when sticky) / 2^k; a then has 55
\* binary digits or more.  q is the whole part of a / 2^e.
float64_nearest(a, sticky, k, e, q) ==
    LET mid   == ShiftLeft(BigAdd(BigScale(q, 2, 0), Big(1), 0), e)
        twice == BigScale(a, 2, 0)
        up    == \/ BigLess(mid, twice)
                 \/ mid = twice /\ (sticky \/ Head(q) % 2 = 1)
    IN  <<IF up THEN BigAdd(q, Big(1), 0) ELSE q, e - k>>

float64_round(a, sticky, k, e) ==
    IF e <= 0 THEN <<a, 0 - k>>
    ELSE float64_nearest(a, sticky, k, e, ShiftRight(a, e))

float64(a, sticky, k) == float64_round(a, sticky, k, Bits(a) - 53)

\* The double nearest to a quotient, from its whole part and its remainder.
float64_parts(qr, k) == float64(qr[1], qr[2] # 0, k)

\* The double of a decimal literal of t units of 0.0001 (0.6745, 3.5).
float64_literal(t) ==
    float64_parts(BigDivMod(ShiftLeft(Big(t), 70), 10000), 70)

\* The whole root of v, for v below 10^8.
RECURSIVE isqrt(_, _, _)
isqrt(v, lo, hi) ==
    IF lo = hi THEN lo
    ELSE LET mid == (lo + hi + 1) \div 2
         IN  IF mid * mid <= v THEN isqrt(v, mid, hi) ELSE isqrt(v, lo, mid - 1)

BigRoot(a) ==
    IF a = << >> THEN 0
    ELSE isqrt(a[1] + (IF Len(a) > 1 THEN BigBase * a[2] ELSE 0), 0, 9999)

\* d is the square of a whole number below 10000.
IsSquare(d) ==
    LET square(r) == Big(r * r) = d
    IN  Len(d) <= 2 /\ square(BigRoot(d))

\* r with the binary digit 2^bit set, a natural of any size.
BigSetBit(r, bit) == BigAdd(r, ShiftLeft(Big(1), bit), 0)

\* One binary digit of the whole root of a: r with the digit 2^bit set where
\* the square of that is not above a, and r otherwise (and below the last
\* digit).
BigSqrtStep(a, r, bit) ==
    IF bit < 0 \/ BigLess(a, BigSquareOf(BigSetBit(r, bit))) THEN r
    ELSE BigSetBit(r, bit)

\* The whole root of a: the largest r with r * r <= a, found bit by bit
\* from 2^bit down, four digits at each level of the recursion.  A root is
\* never longer than a.
RECURSIVE BigSqrt(_, _, _)
BigSqrt(a, r, bit) ==
    IF bit < 0 \/ Len(r) > Len(a) THEN r
    ELSE BigSqrt(a,
                 BigSqrtStep(a,
                     BigSqrtStep(a,
                         BigSqrtStep(a, BigSqrtStep(a, r, bit), bit - 1),
                         bit - 2),
                     bit - 3),
                 bit - 4)

\* The double nearest to the root of a / 2^120, from the whole root r of a.
DoubleRoot(a, r) == float64(r, BigLess(BigSquareOf(r), a), 60)

\* np.sqrt(diff) for diff = d / 4: the double nearest to sqrt(d) / 2, which
\* is sqrt(d) / 2 itself where d is a square.
np_sqrt(d) ==
    IF IsSquare(d) THEN <<Big(BigRoot(d)), -1>>
    ELSE DoubleRoot(ShiftLeft(d, 118),
                    BigSqrt(ShiftLeft(d, 118), << >>, Bits(d) \div 2 + 60))

\* a + b in doubles.
DoubleAdd(a, b) ==
    IF a[2] <= b[2]
    THEN float64(BigAdd(a[1], ShiftLeft(b[1], b[2] - a[2]), 0), FALSE, 0 - a[2])
    ELSE float64(BigAdd(b[1], ShiftLeft(a[1], a[2] - b[2]), 0), FALSE, 0 - b[2])

\* a / 2 for a double a.
DoubleHalf(a) == <<a[1], a[2] - 1>>

\* np.median(diff): the middle diff, or the mean of the two middle diffs (their
\* sum, rounded, then halved).
DoubleMedian(lo, hi) == IF lo = hi THEN lo ELSE DoubleHalf(DoubleAdd(lo, hi))

\* a * 2^x > b * 2^y, or they are equal and orequal holds.
ScaledAbove(a, x, b, y, orequal) ==
    IF x >= y THEN \/ BigLess(b, ShiftLeft(a, x - y))
                   \/ orequal /\ b = ShiftLeft(a, x - y)
    ELSE \/ BigLess(ShiftLeft(b, y - x), a)
         \/ orequal /\ ShiftLeft(b, y - x) = a

\* p / mad > t in doubles: the quotient rounds to a double above t where it is
\* above the middle of t and the next double, or is that middle and the
\* significand of t is odd (ties go to even).
DoubleAbove(p, mad, t) ==
    ScaledAbove(p[1], p[2],
                BigMul(mad[1], BigAdd(BigScale(t[1], 2, 0), Big(1), 0)),
                mad[2] + t[2] - 1,
                Head(t[1]) % 2 = 1)

\* p / med_abs_deviation > t.
DoubleQuotient(t, mad, p) == DoubleAbove(p, mad, t)

\* c * diff / med_abs_deviation > t: the product is rounded, then the
\* quotient.
DoubleProduct(c, t, diff, mad) ==
    DoubleQuotient(t, mad,
                   float64(BigMul(c[1], diff[1]), FALSE, 0 - (c[2] + diff[2])))

\* 0.6745 * diff / med_abs_deviation > thresh as numpy evaluates it in
\* doubles: the root of each diff is rounded, then the mean of the two middle
\* roots, then the product, then the quotient.
DoubleScoreAbove(d, dlo, dhi, thresh_) ==
    DoubleProduct(float64_literal(ZScale), float64_literal(thresh_),
                  np_sqrt(d), DoubleMedian(np_sqrt(dlo), np_sqrt(dhi)))

\* Mutant: an observation whose modified z-score equals thresh is flagged
\* as well.
ZScoreAbove_OrEqual(d, dlo, dhi, thresh_) ==
    IF dlo = << >> /\ dhi = << >> THEN d # << >>
    ELSE LET g  == GCD(2 * ZScale, thresh_)
             t2 == BigSquare(thresh_ \div g)
             P  == BigMul(BigSquare((2 * ZScale) \div g), d)
             Q  == BigMul(t2, BigAdd(dlo, dhi, 0))
             R  == BigMul(Big(4), BigMul(BigMul(t2, t2), BigMul(dlo, dhi)))
         IN  /\ ~BigLess(P, Q)
             /\ ~BigLess(BigAdd(BigMul(P, P), BigMul(Q, Q), 0),
                         BigAdd(R, BigMul(Big(2), BigMul(P, Q)), 0))

\* P - Q > sqrt(R)
ZScoreCompare(P, Q, R) ==
    /\ ~BigLess(P, Q)
    /\ BigLess(BigAdd(R, BigMul(Big(2), BigMul(P, Q)), 0),
               BigAdd(BigMul(P, P), BigMul(Q, Q), 0))

\* X > Y as the doubles of the code decide it, where X = 2 * 0.6745 *
\* sqrt(d) and Y = thresh * (sqrt(dlo) + sqrt(dhi)), from P = X * X and
\* Y * Y = Q + sqrt(R) (R is not above Q * Q).  The five roundings of the
\* double arithmetic (the roots, the mean, the product, the quotient) and
\* the two of the literals move X / Y by less than 2^-49 of its value; so
\* where X * X is above Y * Y by more than Q / 2^27 (rounded up) the doubles
\* compare above, where it is below by that or more they do not, and in
\* between the double arithmetic itself is evaluated.
ZScoreOrder(d, dlo, dhi, thresh_, P, Q, R) ==
    IF ZScoreCompare(P, BigAdd(Q, BigAdd(ShiftRight(Q, 27), Big(1), 0), 0), R)
    THEN TRUE
    ELSE IF ~ZScoreCompare(BigAdd(P, BigAdd(ShiftRight(Q, 27), Big(1), 0), 0),
                           Q, R)
    THEN FALSE
    ELSE DoubleScoreAbove(d, dlo, dhi, thresh_)

\* 0.6745 * diff / med_abs_deviation > thresh, where diff is sqrt(d) / 2 and
\* med_abs_deviation, the median of the diffs, is (sqrt(dlo) + sqrt(dhi)) / 4:
\* 2 * 0.6745 * sqrt(d) / (sqrt(dlo) + sqrt(dhi)) > thresh.
\* A zero med_abs_deviation divides to inf (above any thresh) where diff is
\* positive and to NaN (above none) where diff is zero.
ZScoreAbove(d, dlo, dhi, thresh_) ==
    IF dlo = << >> /\ dhi = << >> THEN d # << >>
    ELSE LET g  == GCD(2 * ZScale, thresh_)
             t2 == BigSquare(thresh_ \div g)
         IN  ZScoreOrder(d, dlo, dhi, thresh_,
                 BigMul(BigSquare((2 * ZScale) \div g), d),
                 BigMul(t2, BigAdd(dlo, dhi, 0)),
                 BigMul(Big(4), BigMul(BigMul(t2, t2), BigMul(dlo, dhi))))

\* The sequence <<f(1), ..., f(n)>>, computed once.
RECURSIVE SeqOf(_, _, _)
SeqOf(f(_), i, n) == IF i > n THEN << >> ELSE <<f(i)>> \o SeqOf(f, i + 1, n)

\* Mutant: the element before the middle is taken for the median of the
\* diffs.
ModifiedZScoreAbove_BelowMiddle(diff, thresh_) ==
    LET n   == Len(diff)
        Flags(dlo) ==
            LET flag(i) == ZScoreAbove(diff[i], dlo, dlo, thresh_)
            IN  SeqOf(flag, 1, n)
    IN  Flags(KthSmallest(diff, IF n = 1 THEN 1 ELSE n \div 2, BigLess))

\* modified_z_score > thresh for every observation, from the squares diff of
\* twice their distances to the median.
ModifiedZScoreAbove(diff, thresh_) ==
    LET n   == Len(diff)
        Flags(dlo, dhi) ==
            LET flag(i) == ZScoreAbove(diff[i], dlo, dhi, thresh_)
            IN  SeqOf(flag, 1, n)
    IN  Flags(KthSmallest(diff, (n + 1) \div 2, BigLess),
              KthSmallest(diff, n \div 2 + 1, BigLess))

\* The squared distances of the observations to the point median2 / 2, each
\* times four.
SquaredDiffs(points_, median2) ==
    LET rowdiff(i) ==
            LET sq(a) == BigSquare(2 * points_[i][a] - median2[a])
                RECURSIVE Sum(_)
                Sum(a) == IF a > Len(median2) THEN << >>
                          ELSE BigAdd(sq(a), Sum(a + 1), 0)
            IN  Sum(1)
    IN  SeqOf(rowdiff, 1, Len(points_))

\* outlier_mad(points, thresh) on an n-observations by n-dimensions array.
outlier_mad(points_, thresh_) ==
    IF points_ = << >> THEN << >>
    ELSE
    LET column(a)  == [i \in DOMAIN points_ |-> points_[i][a]]
        axismed(a) == Median2(column(a))
    IN  ModifiedZScoreAbove(
            SquaredDiffs(points_, SeqOf(axismed, 1, Len(points_[1]))),
            thresh_)

\* The thresholds drawn: the default 3.5, and 0.6745 and 0.6746.  At 0.6745
\* an observation as far from the median as the median absolute deviation
\* scores exactly thresh, and the doubles decide: 0.6745 * 1 / 1 is the
\* double of 0.6745 itself, 0.6745 * 48.5 / 48.5 and 0.6745 * 97 / 97 round
\* to the double above it.
DefaultThresh == 35000
RoundingValues == {0, 97, 194, 200}
Thresholds == {ZScale, ZScale + 1, DefaultThresh}

InitMad ==
    /\ pc = "start"
    /\ mad_points \in UNION {[1 .. n -> MadValues] : n \in 1 .. MaxObs}
    /\ thresh = 0
    /\ outliers = << >>
    /\ RasterIdle
    /\ PipelineIdle
    /\ PointsIdle
    /\ MoveIdle
    /\ StatsIdle
    /\ CertaintyIdle

InitMadRounding ==
    /\ pc = "start"
    /\ mad_points \in UNION {[1 .. n -> RoundingValues] : n \in 1 .. MaxObs}
    /\ thresh = 0
    /\ outliers = << >>
    /\ RasterIdle
    /\ PipelineIdle
    /\ PointsIdle
    /\ MoveIdle
    /\ StatsIdle
    /\ CertaintyIdle

\* One call of outlier_mad on a 1-D array.
OutlierMad ==
    /\ pc = "start"
    /\ mad_points # << >>
    /\ \E t \in Thresholds :
        /\ thresh' = t
        /\ outliers' = outlier_mad(Column(mad_points), t)
    /\ pc' = "mad"
    /\ UNCHANGED mad_points
    /\ UNCHANGED <<maskVars, oceanVars, temporalVars, contourVars>>
    /\ UNCHANGED <<pointVars, moveVars, statsVars, certaintyVars>>
    /\ UNCHANGED pipelineVars

NextMad == OutlierMad

\* The arrays of SpecMad: those of MadValues and those of RoundingValues.
InitMadArrays == InitMad \/ InitMadRounding

SpecMad == InitMadArrays /\ [][NextMad]_vars

(***************************************************************************)
(* Claims about outlier_mad.                                               *)
(***************************************************************************)
\* Twice the absolute deviations of the observations from their median.
Deviations2(values) ==
    LET Dev(med2) ==
            LET dev(i) == IF 2 * values[i] < med2 THEN med2 - 2 * values[i]
                          ELSE 2 * values[i] - med2
            IN  SeqOf(dev, 1, Len(values))
    IN  Dev(Median2(values))

\* flags marks exactly the observations whose deviation, among the doubled
\* deviations dev2, scores above thresh_ (in units of 0.0001).
FlagsAbove(flags, dev2, mad4, thresh_) ==
    \A i \in DOMAIN dev2 :
        flags[i] <=> IF mad4 = 0 THEN dev2[i] > 0
                     ELSE 2 * ZScale * dev2[i] > thresh_ * mad4

ScoresAsFlagged(flags, dev2, thresh_) ==
    FlagsAbove(flags, dev2, Median2(dev2), thresh_)

\* C15 as stated: outlier_mad flags exactly the observations whose modified
\* z-score 0.6745 * |value - median| / median(|value - median|) is strictly
\* greater than thresh (a division by a zero median deviation counting as
\* infinite for a value off the median); of [1,2,3,4,100] at thresh 3.5 only
\* 100 is flagged, and of [1,2,3,4,5] nothing is.
C15_FlagsStrictlyAboveThresh ==
    pc = "mad" =>
        /\ ScoresAsFlagged(outliers, Deviations2(mad_points), thresh)
        /\ (mad_points = <<1, 2, 3, 4, 100>> /\ thresh = DefaultThresh)
              => outliers = <<FALSE, FALSE, FALSE, FALSE, TRUE>>
        /\ (mad_points = <<1, 2, 3, 4, 5>> /\ thresh = DefaultThresh)
              => outliers = <<FALSE, FALSE, FALSE, FALSE, FALSE>>

\* The modified z-score of the deviation dev2 / 2 equals thresh_ exactly,
\* where the median deviation is mad4 / 4.
ScoreAtThresh(dev2, mad4, thresh_) ==
    mad4 # 0 /\ 2 * ZScale * dev2 = thresh_ * mad4

\* The product 0.6745 * (dev2 / 2) rounded to a double, then its quotient by
\* mad4 / 4 rounded to a double, is above the double of thresh_.
RoundedScoreAbove(dev2, mad4, thresh_) ==
    DoubleProduct(float64_literal(ZScale), float64_literal(thresh_),
                  <<Big(dev2), -1>>, <<Big(mad4), -2>>)

\* flags marks the observations whose score is above thresh_ and, of those
\* whose score equals thresh_, the ones whose rounded score is above it.
FlagsRoundedAbove(flags, dev2, mad4, thresh_) ==
    \A i \in DOMAIN dev2 :
        flags[i] <=> IF ScoreAtThresh(dev2[i], mad4, thresh_)
                     THEN RoundedScoreAbove(dev2[i], mad4, thresh_)
                     ELSE IF mad4 = 0 THEN dev2[i] > 0
                     ELSE 2 * ZScale * dev2[i] > thresh_ * mad4

RoundedScoresAsFlagged(flags, dev2, thresh_) ==
    FlagsRoundedAbove(flags, dev2, Median2(dev2), thresh_)

\* C15 amended: outlier_mad flags exactly the observations whose modified
\* z-score, evaluated in doubles (the product 0.6745 * diff rounded, then the
\* quotient by the median deviation), is strictly greater than thresh: an
\* observation whose score is above thresh is flagged, one whose score is
\* below thresh is not, and one whose score equals thresh is flagged where
\* the rounded quotient is above thresh, as both of [3, 100] and both of
\* [0, 194] at thresh 0.6745 are, and is not flagged otherwise, as 2 and 4
\* of [1,2,3,4,5] at thresh 0.6745.  Of [1,2,3,4,100] at thresh 3.5 only
\* 100 is flagged, and of [1,2,3,4,5] nothing is.
C15_FlagsRoundedScoreAboveThresh ==
    pc = "mad" =>
        /\ RoundedScoresAsFlagged(outliers, Deviations2(mad_points), thresh)
        /\ (mad_points = <<3, 100>> /\ thresh = ZScale)
              => outliers = <<TRUE, TRUE>>
        /\ (mad_points = <<0, 194>> /\ thresh = ZScale)
              => outliers = <<TRUE, TRUE>>
        /\ (mad_points = <<1, 2, 3, 4, 5>> /\ thresh = ZScale)
              => outliers = <<TRUE, FALSE, FALSE, FALSE, TRUE>>
        /\ (mad_points = <<1, 2, 3, 4, 100>> /\ thresh = DefaultThresh)
              => outliers = <<FALSE, FALSE, FALSE, FALSE, TRUE>>
        /\ (mad_points = <<1, 2, 3, 4, 5>> /\ thresh = DefaultThresh)
              => outliers = <<FALSE, FALSE, FALSE, FALSE, FALSE>>

\* C15 witness: a call at thresh 0.6745 on [3, 100], where both observations
\* are as far from the median as the median deviation, score exactly thresh
\* and are flagged, the quotient rounding to the double above 0.6745.
C15_Witness ==
    /\ pc = "mad"
    /\ thresh = ZScale
    /\ mad_points = <<3, 100>>
    /\ \A i \in DOMAIN mad_points :
           ScoreAtThresh(Deviations2(mad_points)[i],
                         Median2(Deviations2(mad_points)), thresh)
    /\ outliers = <<TRUE, TRUE>>

(***************************************************************************)
(* Point sampling in generate_vectors: the end of subpixel_contours, then  *)
(* points_on_line.  A line is modelled here by its length, counted in      *)
(* halves of a metre; the lines of one year's contour do not overlap.      *)
(***************************************************************************)
\* The distance between points that generate_vectors passes.
PointSpacing == 30

\* The lengths drawn: 0.5 m and 62.5 m.
LineLengths == {1, 125}

\* The sum of a sequence of integers.
RECURSIVE Sum(_)
Sum(seq) == IF seq = << >> THEN 0 ELSE Head(seq) + Sum(Tail(seq))

\* range(0, stop, step) for a positive step
Range0(stop, step) ==
    [i \in 1 .. (stop + step - 1) \div step |-> (i - 1) * step]

\* vector.py points_on_line.  gdf.loc[[index]] raises KeyError when no row
\* has the index; the rows it returns are never none, so their unary union
\* is taken: one geometry whose length is the sum of the lengths of all
\* lines.  int() drops the half metre.
points_on_line(gdf, index, distance_) ==
    LET line_feature == SelectSeq(gdf, LAMBDA row : row.year = index)
        lines  == [i \in DOMAIN line_feature |-> Sum(line_feature[i].geometry)]
        length == Sum(lines)
    IN  IF line_feature = << >>
        THEN [exception |-> "KeyError", points |-> << >>]
        ELSE [exception |-> "none",
              points    |-> Range0(length \div 2, distance_)]

\* The contours of one year: the lines that passed the vertex test.
KeptLines == UNION {[1 .. n -> LineLengths] : n \in 0 .. MaxKeptLines}

InitPoints ==
    /\ pc = "start"
    /\ line_lengths \in UNION {[1 .. n -> KeptLines] : n \in 1 .. MaxSampleYears}
    /\ baseline_year = 0
    /\ points_gdf = << >>
    /\ points_exception = "none"
    /\ RasterIdle
    /\ PipelineIdle
    /\ MoveIdle
    /\ MadIdle
    /\ StatsIdle
    /\ CertaintyIdle

\* generate_vectors from the table of subpixel_contours (called with its
\* default errors='ignore') to the points of the baseline year.
SamplePoints ==
    /\ pc = "start"
    /\ \E by \in DOMAIN line_lengths :
        LET rows == [i \in DOMAIN line_lengths |->
                        [year |-> i, geometry |-> line_lengths[i]]]
            empty_contours == [i \in DOMAIN rows |-> is_empty(rows[i].geometry)]
            kept == SelectSeq(rows, LAMBDA row : ~is_empty(row.geometry))
            exc  == ContourException(empty_contours, "ignore")
            res  == points_on_line(kept, by, PointSpacing)
        IN  /\ baseline_year' = by
            /\ IF exc # "none"
               THEN /\ pc' = "sampling_raised"
                    /\ points_exception' = exc
                    /\ points_gdf' = << >>
               ELSE /\ pc' = IF res.exception = "none" THEN "sampled"
                             ELSE "sampling_raised"
                    /\ points_exception' = res.exception
                    /\ points_gdf' = res.points
    /\ UNCHANGED line_lengths
    /\ UNCHANGED <<maskVars, oceanVars, temporalVars, contourVars>>
    /\ UNCHANGED <<moveVars, madVars, statsVars, certaintyVars>>
    /\ UNCHANGED pipelineVars

NextPoints == SamplePoints

SpecPoints == InitPoints /\ [][NextPoints]_vars

(***************************************************************************)
(* Claims about point sampling.                                            *)
(***************************************************************************)
\* C11: when the baseline year's contour is empty while another year's is
\* not, point sampling raises nothing and yields zero reference points.
C11_EmptyBaselineYieldsNoPoints ==
    (/\ pc \in {"sampled", "sampling_raised"}
     /\ is_empty(line_lengths[baseline_year])
     /\ \E i \in DOMAIN line_lengths : ~is_empty(line_lengths[i]))
        => (pc = "sampled" /\ points_exception = "none" /\ points_gdf = << >>)

(***************************************************************************)
(* annual_movements, for one point of points_gdf (the rows are handled     *)
(* independently).  A float is << >> when it is NaN and <<v>> otherwise.   *)
(* The nearest point and the distance to it are shapely's; the distance is *)
(* an input here, counted in thousandths of a metre.  The years are        *)
(* 1 .. n.                                                                 *)
(***************************************************************************)
np_nan == << >>
isnan(x) == x = << >>

\* a > b on floats: False when either is NaN
Greater(a, b) == ~isnan(a) /\ ~isnan(b) /\ a[1] > b[1]

\* The number a natural of any size stands for, where it is below 2^31.
RECURSIVE BigValue(_)
BigValue(a) == IF a = << >> THEN 0 ELSE Head(a) + BigBase * BigValue(Tail(a))

\* np.rint(y) of a positive double y = <<m, x>>: the nearest whole number,
\* and the even one of the two where y lies halfway between them.
np_rint(y) ==
    IF y[2] >= 0 THEN BigValue(ShiftLeft(y[1], y[2]))
    ELSE LET q     == ShiftRight(y[1], 0 - y[2])
             mid   == ShiftLeft(BigAdd(BigScale(q, 2, 0), Big(1), 0), 0 - y[2])
             twice == BigScale(y[1], 2, 0)
         IN  IF BigLess(mid, twice) \/ (mid = twice /\ BigValue(q) % 2 = 1)
             THEN BigValue(q) + 1
             ELSE BigValue(q)

\* DataFrame.round(2) of a distance of v / (100 * unit) metres, in
\* hundredths: numpy rounds the double x nearest to the distance as
\* rint(x * 100) / 100, the product itself rounded to a double.  Away from
\* a decimal tie the roundings of x and of the product cannot change the
\* nearest whole number; at a decimal tie they decide: 1.015 is a double
\* below the tie and gives 1.01, 0.125 is the tie and gives 0.12.  -x rounds
\* as x does.
RoundHalfEven(v, unit) ==
    LET m == IF v < 0 THEN 0 - v ELSE v
        x == float64_parts(BigDivMod(ShiftLeft(Big(m), 70), 100 * unit), 70)
        y == float64(BigScale(x[1], 100, 0), FALSE, 0 - x[2])
        whole == IF 2 * (m % unit) < unit THEN m \div unit
                 ELSE IF 2 * (m % unit) > unit THEN m \div unit + 1
                 ELSE np_rint(y)
    IN  IF v < 0 THEN 0 - whole ELSE whole

\* Mutant: the sign is positive when the two sampled values are equal.
annual_movements_EqualPositive(distances_, comp_p1, baseline_p2, baseline_year_, max_valid_dist_) ==
    LET kept(y) == IF distances_[y] < max_valid_dist_
                   THEN <<distances_[y]>> ELSE np_nan
        loss_gain(y) == IF Greater(comp_p1[y], baseline_p2[y]) THEN -1 ELSE 1
        signed(y) == IF isnan(kept(y)) THEN np_nan
                     ELSE <<kept(y)[1] * loss_gain(y)>>
        assigned(y) == IF y = baseline_year_ THEN <<0>> ELSE signed(y)
    IN  [y \in DOMAIN distances_ |->
            IF isnan(assigned(y)) THEN np_nan
            ELSE <<RoundHalfEven(assigned(y)[1], 10)>>]

\* annual_movements: for every year of contours_gdf (the baseline year is
\* one of them), distances.where(distances < max_valid_dist), times
\* loss_gain; then dist_<baseline_year> is assigned 0.0 and every column is
\* rounded to 2 decimals.
annual_movements(distances_, comp_p1, baseline_p2, baseline_year_, max_valid_dist_) ==
    LET kept(y) == IF distances_[y] < max_valid_dist_
                   THEN <<distances_[y]>> ELSE np_nan
        loss_gain(y) == IF Greater(baseline_p2[y], comp_p1[y]) THEN 1 ELSE -1
        signed(y) == IF isnan(kept(y)) THEN np_nan
                     ELSE <<kept(y)[1] * loss_gain(y)>>
        assigned(y) == IF y = baseline_year_ THEN <<0>> ELSE signed(y)
    IN  [y \in DOMAIN distances_ |->
            IF isnan(assigned(y)) THEN np_nan
            ELSE <<RoundHalfEven(assigned(y)[1], 10)>>]

\* The default max_valid_dist, 1000 m.
DefaultMaxValidDist == 1000000

\* The distances drawn: 0, 0.004, 30.006, 1000 and 1000.004 m.
MoveDistances == {0, 4, 30006, DefaultMaxValidDist, DefaultMaxValidDist + 4}

\* The water index values drawn.
SampleValues == {np_nan, <<0>>, <<1>>}

InitMove ==
    /\ pc = "start"
    /\ \E n \in 1 .. MaxMoveYears :
        /\ movement_baseline \in 1 .. n
        \* for a point with one comparison year the decimal ties 0.125 m
        \* (the double is the tie: 0.12) and 1.015 m (the double is below
        \* the tie: 1.01) are drawn too
        /\ distances \in [1 .. n -> MoveDistances
                                      \cup (IF n = 2 THEN {125, 1015} ELSE {})]
        /\ index_comp_p1 \in [1 .. n -> SampleValues]
        /\ index_baseline_p2 \in [1 .. n -> SampleValues]
        \* the point lies on the baseline contour
        /\ distances[movement_baseline] = 0
        /\ index_comp_p1[movement_baseline] = <<0>>
        /\ index_baseline_p2[movement_baseline] = <<0>>
    /\ max_valid_dist = DefaultMaxValidDist
    /\ dist = << >>
    /\ RasterIdle
    /\ PipelineIdle
    /\ PointsIdle
    /\ MadIdle
    /\ StatsIdle
    /\ CertaintyIdle

\* One call of annual_movements.
AnnualMovements ==
    /\ pc = "start"
    /\ dist' = annual_movements(distances, index_comp_p1, index_baseline_p2,
                                movement_baseline, max_valid_dist)
    /\ pc' = "moved"
    /\ UNCHANGED <<distances, index_comp_p1, index_baseline_p2,
                   max_valid_dist, movement_baseline>>
    /\ UNCHANGED <<maskVars, oceanVars, temporalVars, contourVars>>
    /\ UNCHANGED <<pointVars, madVars, statsVars, certaintyVars>>
    /\ UNCHANGED pipelineVars

NextMove == AnnualMovements

SpecMove == InitMove /\ [][NextMove]_vars

(***************************************************************************)
(* Claims about annual_movements.                                          *)
(***************************************************************************)
ComparisonYears == DOMAIN distances \ {movement_baseline}

\* The unsigned distance of year y, rounded as the returned columns are.
Magnitude(y) == RoundHalfEven(distances[y], 10)

Wetter(y) == Greater(index_baseline_p2[y], index_comp_p1[y])

\* C12 as stated: dist_<year> is positive if and only if the baseline
\* raster sampled on the comparison contour is strictly greater than the
\* comparison raster sampled at the point, and negative in every other case.
C12_PositiveIffWetter ==
    pc = "moved" =>
        \A y \in ComparisonYears :
            /\ Greater(dist[y], <<0>>) <=> Wetter(y)
            /\ ~Wetter(y) => Greater(<<0>>, dist[y])

\* C12 amended: a distance that is kept is multiplied by +1 if and only if
\* the baseline raster sampled on the comparison contour is strictly greater
\* than the comparison raster sampled at the point, and by -1 in every
\* other case (equal or missing sampled values included); its magnitude is
\* the unsigned distance, so a distance of zero stays zero; a distance that
\* was set to missing stays missing.
C12_SignFactorIffWetter ==
    pc = "moved" =>
        \A y \in ComparisonYears :
            IF distances[y] < max_valid_dist
            THEN dist[y] = <<IF Wetter(y) THEN Magnitude(y) ELSE -Magnitude(y)>>
            ELSE isnan(dist[y])

\* C12 witness: one year is positive, one is negative with equal sampled
\* values.
C12_Witness ==
    /\ pc = "moved"
    /\ \E y \in ComparisonYears : Wetter(y) /\ Greater(dist[y], <<0>>)
    /\ \E y \in ComparisonYears :
        /\ index_baseline_p2[y] = index_comp_p1[y]
        /\ ~isnan(index_comp_p1[y])
        /\ Greater(<<0>>, dist[y])

\* C13: a distance is set to missing exactly when the unsigned distance
\* exceeds max_valid_dist; a distance equal to max_valid_dist is kept; a
\* kept distance is not clamped, and a missing one stays missing after the
\* sign is applied.
C13_MissingIffExceeds ==
    pc = "moved" =>
        \A y \in ComparisonYears :
            /\ isnan(dist[y]) <=> distances[y] > max_valid_dist
            /\ ~isnan(dist[y]) =>
                  dist[y][1] \in {Magnitude(y), -Magnitude(y)}

(***************************************************************************)
(* Strings of change_regress, calculate_regressions and all_time_stats.    *)
(* A string is the sequence of its characters.                             *)
(***************************************************************************)
\* str(n) of an integer
RECURSIVE str(_)
str(n) ==
    LET digit(d) == <<"0", "1", "2", "3", "4", "5", "6", "7", "8", "9">>[d + 1]
    IN  IF n < 0 THEN <<"-">> \o str(0 - n)
        ELSE IF n < 10 THEN <<digit(n)>>
        ELSE str(n \div 10) \o <<digit(n % 10)>>

\* int(s) of a string of decimal digits
RECURSIVE int(_)
int(s) ==
    LET value(c) == CHOOSE d \in 0 .. 9 : str(d) = <<c>>
    IN  IF Len(s) = 1 THEN value(s[1])
        ELSE 10 * int(SubSeq(s, 1, Len(s) - 1)) + value(s[Len(s)])

\* sep.join(parts)
RECURSIVE join(_, _)
join(sep, parts) ==
    IF parts = << >> THEN << >>
    ELSE IF Len(parts) = 1 THEN parts[1]
    ELSE parts[1] \o sep \o join(sep, Tail(parts))

\* s.split(sep) for a separator of one character
RECURSIVE split(_, _)
split(s, sep) ==
    IF \A i \in DOMAIN s : s[i] # sep THEN <<s>>
    ELSE LET i == CHOOSE k \in DOMAIN s :
                      s[k] = sep /\ \A j \in 1 .. k - 1 : s[j] # sep
         IN  <<SubSeq(s, 1, i - 1)>> \o split(SubSeq(s, i + 1, Len(s)), sep)

\* pat in s
contains(s, pat) ==
    \E i \in 0 .. Len(s) - Len(pat) : SubSeq(s, i + 1, i + Len(pat)) = pat

\* s.lstrip(chars): the leading characters that are in chars removed
RECURSIVE lstrip(_, _)
lstrip(s, chars) ==
    IF s # << >> /\ \E i \in DOMAIN chars : chars[i] = s[1]
    THEN lstrip(Tail(s), chars)
    ELSE s

(***************************************************************************)
(* Doubles with a sign, for the arithmetic of scipy.stats.linregress and   *)
(* np.round: <<negative, m, x>> is the double m * 2^x, negated where       *)
(* negative holds; m is a natural of any size below 2^53 or equal to it.   *)
(***************************************************************************)
\* a - b - borrow for naturals a >= b + borrow of any size
RECURSIVE BigSub(_, _, _)
BigSub(a, b, borrow) ==
    IF a = << >> THEN << >>
    ELSE LET y    == (IF b = << >> THEN 0 ELSE Head(b)) + borrow
             t    == IF Head(a) < y THEN Head(a) + BigBase - y ELSE Head(a) - y
             rest == BigSub(Tail(a), IF b = << >> THEN b ELSE Tail(b),
                            IF Head(a) < y THEN 1 ELSE 0)
         IN  IF rest = << >> /\ t = 0 THEN << >> ELSE <<t>> \o rest

\* One binary digit of a long division: from <<r, q, t>>, the remainder r,
\* the quotient q so far and the divisor times a power of two t, the digit
\* is 1 where t is not above r; t is halved for the next digit.
DivisionStep(s) ==
    IF BigLess(s[1], s[3])
    THEN <<s[1], BigScale(s[2], 2, 0), BigDivMod(s[3], 2)[1]>>
    ELSE <<BigSub(s[1], s[3], 0), BigScale(s[2], 2, 1), BigDivMod(s[3], 2)[1]>>

\* digits binary digits of a long division, four at each level of the
\* recursion.
RECURSIVE LongDivision(_, _)
LongDivision(s, digits) ==
    IF digits <= 0 \/ Len(s) # 3 THEN s
    ELSE LongDivision(DivisionStep(DivisionStep(DivisionStep(DivisionStep(s)))),
                      digits - 4)

\* <<r, q, 0>>: the remainder and the whole quotient of a by b, naturals of
\* any size, b not zero; the quotient has digits binary digits at most,
\* digits a multiple of four.
BigQuotient(a, b, digits) ==
    LongDivision(<<a, << >>, ShiftLeft(b, digits - 1)>>, digits)

\* The double of the sign negative and the magnitude mx = <<m, x>>; a zero
\* is taken as positive.
Signed(negative, mx) == <<negative /\ mx[1] # << >>, mx[1], mx[2]>>

\* float(v) of a whole number v.
np_float64(v) == <<v < 0, Big(IF v < 0 THEN 0 - v ELSE v), 0>>

\* a * b in doubles.
np_multiply(a, b) ==
    Signed(a[1] # b[1], float64(BigMul(a[2], b[2]), FALSE, 0 - (a[3] + b[3])))

\* The sum of two doubles of the magnitudes A / 2^k and B / 2^k, rounded:
\* the sign is that of the larger magnitude.
AddAligned(na, A, nb, B, k) ==
    Signed(IF na # nb /\ BigLess(A, B) THEN nb ELSE na,
           float64(IF na = nb THEN BigAdd(A, B, 0)
                   ELSE IF BigLess(A, B) THEN BigSub(B, A, 0)
                   ELSE BigSub(A, B, 0),
                   FALSE, k))

\* The magnitude m of a double of the exponent x as a multiple of 2^low,
\* low <= x.
Aligned(m, x, low) == IF x = low THEN m ELSE ShiftLeft(m, x - low)

\* a + b in doubles.
np_add(a, b) ==
    AddAligned(a[1], Aligned(a[2], a[3], IF a[3] <= b[3] THEN a[3] ELSE b[3]),
               b[1], Aligned(b[2], b[3], IF a[3] <= b[3] THEN a[3] ELSE b[3]),
               0 - (IF a[3] <= b[3] THEN a[3] ELSE b[3]))

\* a - b in doubles.
np_subtract(a, b) == np_add(a, Signed(~b[1], <<b[2], b[3]>>))

\* The double nearest to a quotient, from <<r, q, 0>>, its remainder and its
\* whole part.
QuotientRounded(rq, k) == float64(rq[2], rq[1] # << >>, k)

\* The double nearest to N / (d * 2^k); the quotient has 55 binary digits or
\* more.
QuotientDouble(N, d, k) ==
    IF Len(d) = 1 THEN float64_parts(BigDivMod(N, Head(d)), k)
    ELSE QuotientRounded(BigQuotient(N, d, 60), k)

\* The quotient of the magnitudes m and d of two doubles, m shifted by K
\* binary digits, which gives the quotient 55 digits or more and fewer than
\* 60.
ShiftedQuotient(m, d, K, x) == QuotientDouble(ShiftLeft(m, K), d, K - x)

\* a / b in doubles, for b not zero; 0 / b is 0.
np_true_divide(a, b) ==
    IF a[2] = << >> THEN np_float64(0)
    ELSE Signed(a[1] # b[1],
                ShiftedQuotient(a[2], b[2], 56 + Bits(b[2]) - Bits(a[2]),
                                a[3] - b[3]))

\* np.add.reduce(a) from the element i on: the elements are added in order
\* (arrays of fewer than eight elements).
RECURSIVE np_sum(_, _, _)
np_sum(a, i, acc) ==
    IF i > Len(a) \/ Len(acc) # 3 THEN acc
    ELSE np_sum(a, i + 1, np_add(acc, a[i]))

\* np.mean(a): the sum divided by the count.
np_mean(a) == np_true_divide(np_sum(a, 1, np_float64(0)), np_float64(Len(a)))

\* a - mean, element by element.
RECURSIVE Centred(_, _, _)
Centred(a, mean, i) ==
    IF i > Len(a) THEN << >>
    ELSE <<np_subtract(a[i], mean)>> \o Centred(a, mean, i + 1)

\* np.dot(a, b) from the element i on: the products, each rounded, are added
\* in order.
RECURSIVE np_dot(_, _, _, _)
np_dot(a, b, i, acc) ==
    IF i > Len(a) \/ Len(acc) # 3 THEN acc
    ELSE np_dot(a, b, i + 1, np_add(acc, np_multiply(a[i], b[i])))

\* np.round(v, 3) of a double v, in thousandths: rint(v * 1000), the product
\* rounded to a double first.
np_round(v) ==
    LET scaled(p) == IF p[1] THEN 0 - np_rint(<<p[2], p[3]>>)
                     ELSE np_rint(<<p[2], p[3]>>)
    IN  scaled(np_multiply(v, np_float64(1000)))

\* The double np.round returns for k thousandths: k / 1000.
Thousandths(k) == np_true_divide(np_float64(k), np_float64(1000))

(***************************************************************************)
(* change_regress.  x is a whole number or np_nan, y a whole number, a     *)
(* number of thousandths or np_nan.  The slope and the intercept are       *)
(* rounded to thousandths (a slope of 1.5 is 1500) as np.round rounds the  *)
(* doubles of scipy; the p-value and the standard error are "finite" or    *)
(* np_nan.                                                                 *)
(***************************************************************************)
\* The slope and the intercept of scipy.stats.linregress(x, y) in doubles:
\* np.cov(x, y, bias=1) centres x and y on their means and scales the dot
\* products by 1 / n; the slope is ssxym / ssxm from the centred arrays cx
\* and cy and f = 1 / n, and the intercept is ymean - slope * xmean.
CovSlope(cx, cy, f) ==
    np_true_divide(np_multiply(np_dot(cx, cy, 1, np_float64(0)), f),
                   np_multiply(np_dot(cx, cx, 1, np_float64(0)), f))

SlopeIntercept(xmean, ymean, slope) ==
    <<slope, np_subtract(ymean, np_multiply(slope, xmean))>>

MeansSlope(x, y, xmean, ymean) ==
    SlopeIntercept(xmean, ymean,
                   CovSlope(Centred(x, xmean, 1), Centred(y, ymean, 1),
                            np_true_divide(np_float64(1), np_float64(Len(x)))))

linregress_double(x, y) == MeansSlope(x, y, np_mean(x), np_mean(y))

\* The error of the doubles: for n whole x of magnitude below X that span
\* the range Rx, and values y of magnitude below Y that are within
\* Y / 2^50 of the exact ones, the slope in doubles is within
\* n^2 * (X + Rx^2) * Y / (Rx^2 * 2^44) of the exact slope, and the intercept
\* within 2 * X times that.  SlopeError is n^2 * (X + Rx^2) * Y.
SlopeError(n, X, Rx, Y) ==
    BigMul(BigMul(Big(n * n), BigAdd(Big(X), BigSquare(Rx), 0)), Big(Y))

\* |whole + num / den - the nearest half| > error / (range2 * 2^44): the
\* exact value is further from a rounding tie than the doubles are from it.
FarFromTie(num, den, error, range2) ==
    BigLess(BigMul(Big(den), error),
            BigMul(ShiftLeft(Big(IF 2 * num < den THEN den - 2 * num
                                 ELSE 2 * num - den), 43),
                   range2))

\* np.round(., 3) in thousandths of a double that stands for the exact
\* value whole + num / den thousandths (0 <= num < den): where the exact
\* value is far from a rounding tie the double rounds as it does, to the
\* nearest whole number; otherwise it rounds to rounded, np.round of the
\* double itself.
RoundParts(whole, num, den, far, rounded) ==
    IF far THEN (IF 2 * num < den THEN whole ELSE whole + 1)
    ELSE rounded

\* np.round(., 3) of the slope and of the intercept of the doubles d.
RoundedDoubles(d) == <<np_round(d[1]), np_round(d[2])>>

\* The largest and the smallest of a sequence of whole numbers.
Largest(a) == CHOOSE v \in {a[i] : i \in DOMAIN a} : \A i \in DOMAIN a : a[i] <= v
Smallest(a) == CHOOSE v \in {a[i] : i \in DOMAIN a} : \A i \in DOMAIN a : a[i] >= v

\* float(v) of each whole number of x.
Floats(x) == [i \in DOMAIN x |-> np_float64(x[i])]

\* scipy.stats.linregress(x, y), then np.round(., 3) of its slope and
\* intercept.  y counts units of 1 / yscale; yscale divides 1000.  yd holds
\* the doubles the code has for y, and ymag bounds their magnitude in
\* thousandths (their distance from y is below ymag / 2^50).
linregress(x, y, yscale, yd, ymag) ==
    LET n     == Len(x)
        ro    == 1000 \div yscale
        X(i)  == n * x[i] - Sum(x)
        XX(i) == X(i) * X(i)
        XY(i) == X(i) * (n * y[i] - Sum(y))
        \* slope = Sxy / Sxx = q + r / Sxx
        \* intercept = (Sy - slope * Sx) / n = k + F / E = k + f + g / E
        parts(Sx, Sy, Sxx, q, r, rounded, Xmag, range2, error) ==
            LET rest(k, E, F) ==
                    [raised |-> "none",
                     slope |-> <<RoundParts(ro * q + (ro * r) \div Sxx,
                                            (ro * r) % Sxx, Sxx,
                                            FarFromTie((ro * r) % Sxx, Sxx,
                                                       error, range2),
                                            rounded[1])>>,
                     intercept |->
                         <<RoundParts(ro * (k + F \div E) + (ro * (F % E)) \div E,
                                      (ro * (F % E)) % E, E,
                                      FarFromTie((ro * (F % E)) % E, E,
                                                 BigMul(error, Big(2 * Xmag)),
                                                 range2),
                                      rounded[2])>>,
                     pvalue |-> <<"finite">>, stderr |-> <<"finite">>]
            IN  rest((Sy - q * Sx) \div n, n * Sxx,
                     ((Sy - q * Sx) % n) * Sxx - r * Sx)
        bounds(Sxx, Sxy, Xmag, Rx, rounded) ==
            parts(Sum(x), Sum(y), Sxx, Sxy \div Sxx, Sxy % Sxx, rounded,
                  Xmag, BigSquare(Rx), SlopeError(n, Xmag, Rx, ymag))
        \* all x values are identical: scipy (from 1.7 on) raises for more
        \* than one value, and one value gives NaN
        fit(Sxx, Sxy, rounded) ==
            IF Sxx = 0
            THEN IF n > 1 THEN [raised |-> "ValueError"]
                 ELSE [raised |-> "none", slope |-> np_nan, intercept |-> np_nan,
                       pvalue |-> np_nan, stderr |-> np_nan]
            ELSE bounds(Sxx, Sxy,
                        1 + Largest([i \in DOMAIN x |->
                                        IF x[i] < 0 THEN 0 - x[i] ELSE x[i]]),
                        Largest(x) - Smallest(x), rounded)
    IN  IF n = 0 THEN [raised |-> "ValueError"]
        ELSE fit(Sum(SeqOf(XX, 1, n)), Sum(SeqOf(XY, 1, n)),
                 RoundedDoubles(linregress_double(Floats(x), yd)))

\* sorted(S) of a set of integers
RECURSIVE sorted(_)
sorted(S) ==
    IF S = {} THEN << >>
    ELSE LET m == CHOOSE a \in S : \A b \in S : a <= b
         IN  <<m>> \o sorted(S \ {m})

\* Mutant: the labels are joined in decreasing order.
outlier_str_Decreasing(x_labels, valid_labels) ==
    LET RECURSIVE reversed(_)
        reversed(S) ==
            IF S = {} THEN << >>
            ELSE LET m == CHOOSE a \in S : \A b \in S : a >= b
                 IN  <<m>> \o reversed(S \ {m})
        outlier_set == {x_labels[i] : i \in DOMAIN x_labels}
                           \ {valid_labels[i] : i \in DOMAIN valid_labels}
        labels == reversed(outlier_set)
    IN  join(<<" ">>, [i \in DOMAIN labels |-> str(labels[i])])

\* ' '.join(map(str, sorted(set(x_labels) - set(valid_labels))))
outlier_str(x_labels, valid_labels) ==
    LET outlier_set == {x_labels[i] : i \in DOMAIN x_labels}
                           \ {valid_labels[i] : i \in DOMAIN valid_labels}
        labels == sorted(outlier_set)
    IN  join(<<" ">>, [i \in DOMAIN labels |-> str(labels[i])])

\* y - (slope * x + intercept) in doubles, for a whole y and x and a slope
\* and an intercept of so many thousandths.
Detrended(y, x, slope, intercept) ==
    np_subtract(np_float64(y),
                np_add(np_multiply(Thousandths(slope), np_float64(x)),
                       Thousandths(intercept)))

\* |a| + |b| + |c|
Magnitude3(a, b, c) ==
    (IF a < 0 THEN 0 - a ELSE a) + (IF b < 0 THEN 0 - b ELSE b)
        + (IF c < 0 THEN 0 - c ELSE c)

\* The doubles of the values y the line is fitted to, whole numbers:
\* y - (slope * x + intercept), each operation rounded, with
\* detrend_params, and y itself without.
FittedDoubles(y, x, detrend_params) ==
    [i \in DOMAIN y |->
        IF detrend_params = << >> THEN np_float64(y[i])
        ELSE Detrended(y[i], x[i], detrend_params[1][1], detrend_params[2][1])]

\* A bound of the magnitude of these doubles, and of every value they are
\* made from, in thousandths.
FittedMagnitude(y, x, detrend_params) ==
    1 + Largest([i \in DOMAIN y |->
                    IF detrend_params = << >> THEN Magnitude3(1000 * y[i], 0, 0)
                    ELSE Magnitude3(1000 * y[i], detrend_params[1][1] * x[i],
                                    detrend_params[2][1])])

\* a < b for two doubles with a sign.
DoubleLess(a, b) ==
    IF a[1] # b[1] THEN a[1]
    ELSE IF a[1] THEN ScaledAbove(a[2], a[3], b[2], b[3], FALSE)
    ELSE ScaledAbove(b[2], b[3], a[2], a[3], FALSE)

\* np.median(a) of doubles: the middle one, or the mean of the two middle
\* ones (their sum, rounded, then halved).
DoubleHalved(s) == <<s[1], s[2], s[3] - 1>>

np_median(a) ==
    IF Len(a) % 2 = 1 THEN KthSmallest(a, (Len(a) + 1) \div 2, DoubleLess)
    ELSE DoubleHalved(np_add(KthSmallest(a, Len(a) \div 2, DoubleLess),
                             KthSmallest(a, Len(a) \div 2 + 1, DoubleLess)))

\* The double nearest to the root of m * 2^x, x even, from a = m * 2^120.
RaisedBy(mx, k) == <<FALSE, mx[1], mx[2] + k>>

RootOfEven(a, top, x) == RaisedBy(DoubleRoot(a, BigSqrt(a, << >>, top)), x \div 2)

\* np.sqrt of a double that is not negative.
DoubleSqrt(a) ==
    IF a[2] = << >> THEN a
    ELSE IF a[3] % 2 = 0
    THEN RootOfEven(ShiftLeft(a[2], 120), Bits(a[2]) \div 2 + 60, a[3])
    ELSE RootOfEven(ShiftLeft(a[2], 121), (Bits(a[2]) + 1) \div 2 + 60, a[3] - 1)

\* np.sqrt(np.sum((points - median)**2, axis=-1)) of a row of two columns.
DoubleNorm(dx, dy) ==
    DoubleSqrt(np_add(np_multiply(dx, dx), np_multiply(dy, dy)))

RECURSIVE DoubleDiffs(_, _, _, _, _)
DoubleDiffs(xd, yd, xmed, ymed, i) ==
    IF i > Len(xd) THEN << >>
    ELSE <<DoubleNorm(np_subtract(xd[i], xmed), np_subtract(yd[i], ymed))>>
             \o DoubleDiffs(xd, yd, xmed, ymed, i + 1)

\* 0.6745 * diff / med_abs_deviation > thresh for each diff, in doubles.
DoubleScores(diff, mad, thresh_) ==
    [i \in DOMAIN diff |->
        IF mad[2] = << >> THEN diff[i][2] # << >>
        ELSE DoubleProduct(float64_literal(ZScale), float64_literal(thresh_),
                           <<diff[i][2], diff[i][3]>>, <<mad[2], mad[3]>>)]

DoubleFlags(diff, thresh_) == DoubleScores(diff, np_median(diff), thresh_)

\* outlier_mad(xy_df, thresh) on the doubles of the two columns.
outlier_mad_double(xd, yd, thresh_) ==
    DoubleFlags(DoubleDiffs(xd, yd, np_median(xd), np_median(yd), 1), thresh_)

\* Where X * X = P is above Y * Y = Q + sqrt(R) by more than m, below it by
\* m or more, or nearer.
ScoreSide(P, Q, R, m) ==
    IF ZScoreCompare(P, BigAdd(Q, m, 0), R) THEN "above"
    ELSE IF ~ZScoreCompare(BigAdd(P, m, 0), Q, R) THEN "below"
    ELSE "near"

\* The side of thresh the modified z-score of an observation is on, for
\* doubles whose diffs are within mag / 2^47 of the exact ones (of which d,
\* dlo and dhi are the squares times four, whole numbers): the score in
\* doubles is within (6 * mag / 2^47 + 2^-51) of its value of the exact one,
\* which Q * (1 + mag \div 2^14) / 2^27 bounds for the squares.  A zero
\* median deviation with a zero diff divides two rounding errors, except
\* for a single observation.
ScoreSideOf(d, dlo, dhi, thresh_, mag, n) ==
    IF dlo = << >> /\ dhi = << >>
    THEN IF d # << >> THEN "above" ELSE IF n = 1 THEN "below" ELSE "near"
    ELSE LET g  == GCD(2 * ZScale, thresh_)
             t2 == BigSquare(thresh_ \div g)
             Q  == BigMul(t2, BigAdd(dlo, dhi, 0))
         IN  ScoreSide(BigMul(BigSquare((2 * ZScale) \div g), d), Q,
                       BigMul(Big(4), BigMul(BigMul(t2, t2), BigMul(dlo, dhi))),
                       BigScale(BigAdd(ShiftRight(Q, 27), Big(1), 0),
                                1 + mag \div 16384, 0))

\* modified_z_score > thresh for observations of rounded values: the exact
\* comparison where every score is far from thresh, and otherwise the
\* comparison of the doubles, rounded.
RoundedScoresAbove(side, rounded) ==
    IF \E i \in DOMAIN side : side[i] = "near" THEN rounded
    ELSE [i \in DOMAIN side |-> side[i] = "above"]

RoundedZScoreAbove(diff, thresh_, mag, rounded) ==
    LET n == Len(diff)
        Sides(dlo, dhi) ==
            LET side(i) == ScoreSideOf(diff[i], dlo, dhi, thresh_, mag, n)
            IN  SeqOf(side, 1, n)
    IN  RoundedScoresAbove(Sides(KthSmallest(diff, (n + 1) \div 2, BigLess),
                                 KthSmallest(diff, n \div 2 + 1, BigLess)),
                           rounded)

\* Twice the median of each column of points.
AxisMedians2(points_) ==
    LET column(a)  == [i \in DOMAIN points_ |-> points_[i][a]]
        axismed(a) == Median2(column(a))
    IN  SeqOf(axismed, 1, Len(points_[1]))

\* outlier_bool = outlier_mad(xy_df, thresh=threshold) on the valid rows:
\* points_ holds their x and their values y in exact units, and x and y0
\* their x and the distances the trend is taken off, in doubles, as the
\* code has them.  Whole distances are exact in doubles.
outlier_bool(points_, x, y0, thresh_, detrend_params) ==
    IF points_ = << >> THEN << >>
    ELSE IF detrend_params = << >> THEN outlier_mad(points_, thresh_)
    ELSE RoundedZScoreAbove(
             SquaredDiffs(points_, AxisMedians2(points_)), thresh_,
             FittedMagnitude(y0, x, detrend_params)
                 + 1000 * (Largest(x) - Smallest(x)),
             outlier_mad_double(Floats(x), FittedDoubles(y0, x, detrend_params),
                                thresh_))

\* A line through missing values: scipy sets the p-value and the standard
\* error of two points without looking at their values, and raises
\* ValueError where more than one x is given and all are identical.
nan_line(nf) ==
    [raised |-> "none", slope |-> np_nan, intercept |-> np_nan,
     pvalue |-> IF nf = 2 THEN <<"finite">> ELSE np_nan,
     stderr |-> IF nf = 2 THEN <<"finite">> ELSE np_nan]

\* lin_reg = stats.linregress(x=xy_df[:, 0], y=xy_df[:, 1]) on the rows
\* kept, fit: their x, their values y (y0 before the trend was taken off),
\* and whether the trend holds a missing value.
fit_linregress(fit, detrend_params) ==
    IF fit.nan_trend /\ fit.x # << >>
    THEN IF Len(fit.x) > 1 /\ Largest(fit.x) = Smallest(fit.x)
         THEN [raised |-> "ValueError"]
         ELSE nan_line(Len(fit.x))
    ELSE linregress(fit.x, fit.y, fit.yscale,
                    FittedDoubles(fit.y0, fit.x, detrend_params),
                    FittedMagnitude(fit.y0, fit.x, detrend_params))

\* The values change_regress returns for the line lin_reg fitted to the
\* rows of the labels valid_labels.
regress_result(lin_reg, x_labels, valid_labels) ==
    IF lin_reg.raised # "none" THEN [raised |-> lin_reg.raised]
    ELSE [raised |-> "none",
          slope |-> lin_reg.slope, intercept |-> lin_reg.intercept,
          pvalue |-> lin_reg.pvalue, stderr |-> lin_reg.stderr,
          outliers |-> outlier_str(x_labels, valid_labels),
          valid_labels |-> valid_labels]

\* The line fitted to the rows kept and the values returned for it.
regress_fit(fit, x_labels, detrend_params) ==
    regress_result(fit_linregress(fit, detrend_params), x_labels, fit.labels)

\* detrend_params is << >> for None, else <<slope, intercept>>.  The result
\* carries, besides the five values returned, the exception raised and the
\* labels of the rows the line was fitted to.  Each array is computed once
\* and handed on: valid_rows, then outlier_bool, then the rows fitted.
change_regress(y_vals, x_vals, x_labels, threshold, detrend_params) ==
    LET valid_bool(i) == ~isnan(x_vals[i]) /\ ~isnan(y_vals[i])
        detrend == detrend_params # << >>
        nan_trend == detrend /\ (isnan(detrend_params[1])
                                    \/ isnan(detrend_params[2]))
        \* detrended values count thousandths
        yscale == IF detrend THEN 1000 ELSE 1
        regress(valid_rows) ==
            LET xv(j) == x_vals[valid_rows[j]][1]
                yv(j) == IF detrend
                         THEN 1000 * y_vals[valid_rows[j]][1]
                                - (detrend_params[1][1] * xv(j)
                                     + detrend_params[2][1])
                         ELSE y_vals[valid_rows[j]][1]
                xy(j) == <<yscale * xv(j), yv(j)>>
                fit(fit_rows) ==
                    LET fx(m) == xv(fit_rows[m])
                        fy(m) == yv(fit_rows[m])
                        fy0(m) == y_vals[valid_rows[fit_rows[m]]][1]
                        fit_label(m) == x_labels[valid_rows[fit_rows[m]]]
                    IN  [x |-> SeqOf(fx, 1, Len(fit_rows)),
                         y |-> IF nan_trend THEN << >>
                               ELSE SeqOf(fy, 1, Len(fit_rows)),
                         y0 |-> SeqOf(fy0, 1, Len(fit_rows)),
                         yscale |-> yscale,
                         nan_trend |-> nan_trend,
                         labels |-> SeqOf(fit_label, 1, Len(fit_rows))]
                remove(flagged) ==
                    LET kept(j) == ~flagged[j]
                    IN  fit(SelectSeq([j \in DOMAIN valid_rows |-> j], kept))
            \* no modified z-score of missing values is above the threshold
                y0v(j) == y_vals[valid_rows[j]][1]
            IN  remove(IF nan_trend THEN [j \in DOMAIN valid_rows |-> FALSE]
                       ELSE outlier_bool(SeqOf(xy, 1, Len(valid_rows)),
                                         SeqOf(xv, 1, Len(valid_rows)),
                                         SeqOf(y0v, 1, Len(valid_rows)),
                                         threshold, detrend_params))
    IN  regress_fit(regress(SelectSeq([i \in DOMAIN x_vals |-> i], valid_bool)),
                    x_labels, detrend_params)

(***************************************************************************)
(* calculate_regressions and all_time_stats for one point.  A row of the   *)
(* point table is the sequence of its <<column name, value>> pairs.  A     *)
(* distance counts whole metres.  climate_df has the one column 'soi', as  *)
(* generate_vectors loads it.  contours_gdf lists its years in increasing  *)
(* order.                                                                  *)
(***************************************************************************)
DefaultInitialYear == 1988

\* Mutant: every column is returned.
loc_AllColumns(row, names) == row

\* row.loc[names]
loc(row, names) ==
    [i \in DOMAIN names |-> row[CHOOSE j \in DOMAIN row : row[j][1] = names[i]]]

\* The table calculate_regressions returns for a point: the columns of the
\* two regressions are assigned to the point and the columns kept are
\* selected.
regression_columns(points_subset_, x_years_, rate, ci) ==
    LET time == <<"t", "i", "m", "e">>
        soi  == <<"s", "o", "i">>
        dist_years == [i \in DOMAIN x_years_ |->
                          <<"d", "i", "s", "t", "_">> \o str(x_years_[i])]
        geometry == <<"g", "e", "o", "m", "e", "t", "r", "y">>
        points == [i \in DOMAIN x_years_ |-> <<dist_years[i], points_subset_[i]>>]
                      \o <<<<geometry, "Point">>>>
        assigned(i, out) ==
            << <<<<"r", "a", "t", "e", "_">> \o i, out.slope>>,
               <<<<"i", "n", "c", "p", "t", "_">> \o i, out.intercept>>,
               <<<<"s", "i", "g", "_">> \o i, out.pvalue>>,
               <<<<"s", "e", "_">> \o i, out.stderr>>,
               <<<<"o", "u", "t", "l", "_">> \o i, out.outliers>> >>
        reg_cols(i) == << <<"r", "a", "t", "e", "_">> \o i,
                          <<"s", "i", "g", "_">> \o i,
                          <<"s", "e", "_">> \o i,
                          <<"o", "u", "t", "l", "_">> \o i >>
    IN  IF ci.raised # "none"
        THEN [raised |-> ci.raised, rate_out |-> rate, ci_out |-> ci,
              gdf |-> << >>]
        ELSE [raised |-> "none", rate_out |-> rate, ci_out |-> ci,
              gdf |-> loc(points \o assigned(time, rate) \o assigned(soi, ci),
                          reg_cols(time) \o reg_cols(soi) \o dist_years
                              \o <<geometry>>)]

\* The regression against the climate index, on the distances less the
\* trend rate of the regression against time.
climate_regression(points_subset_, x_years_, climate_subset_, rate) ==
    IF rate.raised # "none"
    THEN [raised |-> rate.raised, rate_out |-> rate, ci_out |-> << >>,
          gdf |-> << >>]
    ELSE regression_columns(points_subset_, x_years_, rate,
                            change_regress(points_subset_, climate_subset_,
                                           x_years_, DefaultThresh,
                                           <<rate.slope, rate.intercept>>))

\* The default threshold of change_regress is 3.5.
calculate_regressions(points_subset_, x_years_, climate_subset_) ==
    climate_regression(points_subset_, x_years_, climate_subset_,
                       change_regress(points_subset_,
                                      [i \in DOMAIN x_years_ |-> <<x_years_[i]>>],
                                      x_years_, DefaultThresh, << >>))

\* Mutant: no label is dropped.
drop_Nothing(series, labels) == series

\* series.drop(labels, errors='ignore') of a series of <<label, value>> pairs
drop(series, labels) ==
    LET kept(c) == c[1] \notin labels
    IN  SelectSeq(series, kept)

\* pandas Index.is_monotonic_increasing and is_monotonic_decreasing.
is_monotonic_increasing(index) ==
    \A i \in 1 .. Len(index) - 1 : index[i] <= index[i + 1]

is_monotonic_decreasing(index) ==
    \A i \in 1 .. Len(index) - 1 : index[i] >= index[i + 1]

\* A slice by label from start_year on, index.slice_indexer(start_year,
\* None) of pandas, which layer_ds.sel(year=slice(start_year, None)) and
\* subset.loc[initial_year:] both take their rows from: from the position
\* of start_year on where the index holds it; otherwise from the position a
\* monotonic index would hold it at (the years above it of an increasing
\* index, the years below it of a decreasing one), and KeyError on an index
\* that is not monotonic.
sel(index, start_year) ==
    IF \E i \in DOMAIN index : index[i] = start_year
    THEN [raised |-> "none",
          year |-> SubSeq(index, CHOOSE i \in DOMAIN index : index[i] = start_year,
                          Len(index))]
    ELSE IF is_monotonic_increasing(index)
    THEN [raised |-> "none", year |-> SelectSeq(index, LAMBDA y : y > start_year)]
    ELSE IF is_monotonic_decreasing(index)
    THEN [raised |-> "none", year |-> SelectSeq(index, LAMBDA y : y < start_year)]
    ELSE [raised |-> "KeyError", year |-> << >>]

\* all_time_stats(x, col, initial_year) on a row x.  The dist_ columns are
\* in the order of the years of contours_gdf; subset.loc[initial_year:] is
\* a slice by label of that order.
all_time_stats(x, col, initial_year_) ==
    LET year_col(c) == contains(c[1], col)
        year_cols == SelectSeq(x, year_col)
        \* the series of <<year, distance>>
        subset == [i \in DOMAIN year_cols |->
                      <<int(lstrip(year_cols[i][1], <<"d", "i", "s", "t", "_">>)),
                        year_cols[i][2]>>]
        outl_time == x[CHOOSE j \in DOMAIN x :
                           x[j][1] = <<"o", "u", "t", "l", "_", "t", "i", "m", "e">>][2]
        to_drop(tokens) ==
            {int(tokens[i]) : i \in {i \in DOMAIN tokens : Len(tokens[i]) > 0}}
        stats(subset_nooutl) ==
            LET n == Len(subset_nooutl)
                numbers == {i \in 1 .. n : ~isnan(subset_nooutl[i][2])}
                val(i) == subset_nooutl[i][2][1]
                at_initial == {i \in 1 .. n : subset_nooutl[i][1] = initial_year_}
                \* idxmax and idxmin: the first year of the largest, smallest
                extremes(idxmax, idxmin) ==
                    [raised |-> "none",
                     valid_obs |-> n,
                     valid_span |-> subset_nooutl[n][1] - subset_nooutl[1][1] + 1,
                     sce |-> IF numbers = {} THEN np_nan
                             ELSE <<val(idxmax) - val(idxmin)>>,
                     nsm |-> IF at_initial = {} THEN np_nan
                             ELSE LET i == CHOOSE i \in at_initial : TRUE
                                  IN  IF isnan(subset_nooutl[i][2]) THEN np_nan
                                      ELSE <<0 - val(i)>>,
                     max_year |-> IF numbers = {} THEN np_nan
                                  ELSE <<subset_nooutl[idxmax][1]>>,
                     min_year |-> IF numbers = {} THEN np_nan
                                  ELSE <<subset_nooutl[idxmin][1]>>]
            IN  IF n = 0 THEN [raised |-> "IndexError"]
                ELSE extremes(
                    IF numbers = {} THEN 0
                    ELSE CHOOSE i \in numbers :
                             /\ \A j \in numbers : val(j) <= val(i)
                             /\ \A j \in numbers : j < i => val(j) < val(i),
                    IF numbers = {} THEN 0
                    ELSE CHOOSE i \in numbers :
                             /\ \A j \in numbers : val(j) >= val(i)
                             /\ \A j \in numbers : j < i => val(j) > val(i))
        \* subset.loc[initial_year:], then the statistics
        sliced(from_initial) ==
            IF from_initial.raised # "none" THEN [raised |-> from_initial.raised]
            ELSE stats(drop(SelectSeq(subset,
                                      LAMBDA c : \E i \in DOMAIN from_initial.year :
                                                     from_initial.year[i] = c[1]),
                            to_drop(split(outl_time, " "))))
    IN  sliced(sel([i \in DOMAIN subset |-> subset[i][1]], initial_year_))

\* The years of annual coastlines, the distances and the values of soi that
\* are drawn; soi is missing for one year at most, and has the same value in
\* 2019 and 2020.  The years of contours_gdf are in increasing order:
\* subpixel_contours makes its rows in the order of da.groupby('year'),
\* which yields the years sorted.
YearsDrawn == {1988, 2010, 2018, 2019, 2020}
DistValues == {np_nan, <<-50>>, <<0>>}
Soi(year) == IF year = 1988 THEN 1 ELSE IF year = 2010 THEN 2
             ELSE IF year = 2018 THEN -2 ELSE 0

InitStats ==
    /\ pc = "start"
    /\ RasterIdle
    /\ PipelineIdle
    /\ PointsIdle
    /\ MoveIdle
    /\ MadIdle
    /\ CertaintyIdle
    /\ \E years \in SUBSET YearsDrawn :
        /\ years # {}
        /\ Cardinality(years) <= MaxRegYears
        /\ x_years = sorted(years)
    /\ points_subset \in [DOMAIN x_years -> DistValues]
    /\ \E missing \in 0 .. Len(x_years) :
        climate_subset = [i \in DOMAIN x_years |->
                             IF i = missing THEN np_nan ELSE <<Soi(x_years[i])>>]
    /\ initial_year \in {DefaultInitialYear, 2010}
    /\ rate_out = << >>
    /\ ci_out = << >>
    /\ regress_gdf = << >>
    /\ stats_out = << >>

\* points_gdf = calculate_regressions(points_gdf, contours_gdf, climate_df)
CalculateRegressions ==
    /\ pc = "start"
    /\ x_years # << >>
    /\ \E out \in {calculate_regressions(points_subset, x_years, climate_subset)} :
           /\ rate_out' = out.rate_out
           /\ ci_out' = out.ci_out
           /\ regress_gdf' = out.gdf
           /\ pc' = IF out.raised = "none" THEN "regressed" ELSE "regress_raised"
    /\ UNCHANGED <<x_years, points_subset, climate_subset, initial_year, stats_out>>
    /\ UNCHANGED <<maskVars, oceanVars, temporalVars, contourVars>>
    /\ UNCHANGED <<pointVars, moveVars, madVars, certaintyVars>>
    /\ UNCHANGED pipelineVars

\* points_gdf.apply(lambda x: all_time_stats(x, initial_year=...), axis=1)
AllTimeStats ==
    /\ pc = "regressed"
    /\ stats_out' = all_time_stats(regress_gdf, <<"d", "i", "s", "t", "_">>,
                                   initial_year)
    /\ pc' = IF stats_out'.raised = "none" THEN "stats" ELSE "stats_raised"
    /\ UNCHANGED <<x_years, points_subset, climate_subset, rate_out, ci_out,
                   regress_gdf, initial_year>>
    /\ UNCHANGED <<maskVars, oceanVars, temporalVars, contourVars>>
    /\ UNCHANGED <<pointVars, moveVars, madVars, certaintyVars>>
    /\ UNCHANGED pipelineVars

NextStats == CalculateRegressions \/ AllTimeStats

SpecStats == InitStats /\ [][NextStats]_vars


(***************************************************************************)
(* Claims about change_regress, as calculate_regressions calls it: against *)
(* time (x is the year) and against soi (x is the climate index, y is      *)
(* detrended with the slope and intercept of the regression against time). *)
(***************************************************************************)
Regressed == pc \in {"regressed", "stats", "stats_raised"}

YearValues == [i \in DOMAIN x_years |-> <<x_years[i]>>]

\* The rows of a regression on x that miss x or y.
MissingRows(x) ==
    {i \in DOMAIN x_years : isnan(x[i]) \/ isnan(points_subset[i])}

\* The rows the MAD test flags among the rows that miss nothing; y(i) is the
\* value of row i, in units of 1 / scale.
FlaggedRows(x, y(_), scale) ==
    LET present(i) == i \notin MissingRows(x)
        rows  == SelectSeq([i \in DOMAIN x_years |-> i], present)
        xy(j) == <<scale * x[rows[j]][1], y(rows[j])>>
        flags == outlier_mad(SeqOf(xy, 1, Len(rows)), DefaultThresh)
    IN  {rows[j] : j \in {j \in DOMAIN rows : flags[j]}}

FlaggedTime ==
    LET y(i) == points_subset[i][1]
    IN  FlaggedRows(YearValues, y, 1)

FlaggedSoi ==
    LET y(i) == 1000 * points_subset[i][1]
                  - (rate_out.slope[1] * climate_subset[i][1]
                       + rate_out.intercept[1])
    IN  IF isnan(rate_out.slope) \/ isnan(rate_out.intercept) THEN {}
        ELSE FlaggedRows(climate_subset, y, 1000)

\* The labels an outlier string names, in its order.
NamedLabels(outliers_) ==
    LET tokens == split(outliers_, " ")
    IN  IF outliers_ = << >> THEN << >>
        ELSE [i \in DOMAIN tokens |-> int(tokens[i])]

\* The string names the years of the excluded rows and no other, each once,
\* in ascending order, joined by single spaces; the fitted labels are the
\* other years.
NamesExcluded(out, excluded) ==
    LET tokens == split(out.outliers, " ")
        labels == NamedLabels(out.outliers)
        named  == {labels[i] : i \in DOMAIN labels}
        fitted == {out.valid_labels[i] : i \in DOMAIN out.valid_labels}
    IN  /\ out.outliers # << >> => \A i \in DOMAIN tokens : tokens[i] # << >>
        /\ \A i \in DOMAIN labels : i > 1 => labels[i - 1] < labels[i]
        /\ out.outliers = join(<<" ">>, [i \in DOMAIN labels |-> str(labels[i])])
        /\ named = {x_years[i] : i \in excluded}
        /\ named \cap fitted = {}
        /\ named \cup fitted = {x_years[i] : i \in DOMAIN x_years}

\* C14: the outlier string of change_regress names exactly the labels of the
\* rows excluded from the fit, the rows with a missing x or y value and the
\* rows flagged by the MAD test, each label once, in ascending order, joined
\* by single spaces; the labels used in the fit and the labels in the string
\* are disjoint and together are all of x_labels.
C14_OutlierStringNamesExcluded ==
    Regressed =>
        /\ NamesExcluded(rate_out, MissingRows(YearValues) \cup FlaggedTime)
        /\ NamesExcluded(ci_out, MissingRows(climate_subset) \cup FlaggedSoi)

\* C14 witness: the string of the regression against time names a row with
\* a missing distance before a row the MAD test flags, and the string of the
\* regression against soi names a row whose soi is missing.
C14_Witness ==
    /\ Regressed
    /\ \E i \in MissingRows(YearValues) : \E j \in FlaggedTime :
        /\ i < j
        /\ NamedLabels(rate_out.outliers) = <<x_years[i], x_years[j]>>
    /\ \E k \in DOMAIN x_years :
        /\ isnan(climate_subset[k]) /\ ~isnan(points_subset[k])
        /\ \E m \in DOMAIN NamedLabels(ci_out.outliers) :
               NamedLabels(ci_out.outliers)[m] = x_years[k]


\* The rows a regression is fitted to.
FittedRows(missing, flagged) == DOMAIN x_years \ (missing \cup flagged)

\* A result with NaN slope, intercept, p-value and standard error whose
\* outlier string names the excluded rows.
ReportsNaN(out, excluded) ==
    /\ out.raised = "none"
    /\ isnan(out.slope) /\ isnan(out.intercept)
    /\ isnan(out.pvalue) /\ isnan(out.stderr)
    /\ NamesExcluded(out, excluded)

\* C16: change_regress never raises when fewer than two observations remain
\* after dropping missing rows and MAD outliers (zero or one remaining row,
\* an all-missing series included): it returns a result whose slope,
\* intercept, p-value and standard error are NaN and whose outlier string
\* names every excluded label.
C16_FewObservationsNeverRaise ==
    pc # "start" =>
        /\ Cardinality(FittedRows(MissingRows(YearValues), FlaggedTime)) < 2
              => ReportsNaN(rate_out, MissingRows(YearValues) \cup FlaggedTime)
        /\ /\ rate_out.raised = "none"
           /\ Cardinality(FittedRows(MissingRows(climate_subset), FlaggedSoi)) < 2
              => ReportsNaN(ci_out, MissingRows(climate_subset) \cup FlaggedSoi)


(***************************************************************************)
(* Claims about calculate_regressions.                                     *)
(***************************************************************************)
Regressors == {<<"t", "i", "m", "e">>, <<"s", "o", "i">>}

\* The names of the columns of a row, and the value under a name.
Columns(row) == {row[j][1] : j \in DOMAIN row}
Value(row, name) == row[CHOOSE j \in DOMAIN row : row[j][1] = name][2]

DistColumns == {<<"d", "i", "s", "t", "_">> \o str(x_years[i]) : i \in DOMAIN x_years}

\* C17 as stated: the returned table carries, for every regressor, all five
\* regression outputs (rate_, incpt_, sig_, se_, outl_), every dist_<year>
\* column and the geometry.
C17_FiveOutputsPerRegressor ==
    Regressed =>
        /\ \A i \in Regressors :
               \A prefix \in {<<"r", "a", "t", "e", "_">>,
                              <<"i", "n", "c", "p", "t", "_">>,
                              <<"s", "i", "g", "_">>, <<"s", "e", "_">>,
                              <<"o", "u", "t", "l", "_">>} :
                   prefix \o i \in Columns(regress_gdf)
        /\ DistColumns \subseteq Columns(regress_gdf)
        /\ <<"g", "e", "o", "m", "e", "t", "r", "y">> \in Columns(regress_gdf)

\* C17 amended: the returned table carries, for every regressor, four
\* regression outputs, the slope (rate_), the p-value (sig_), the standard
\* error (se_) and the outlier list (outl_), with the values change_regress
\* returned; every dist_<year> column, unchanged; the geometry; and no other
\* column: the intercept is not returned.
C17_FourOutputsPerRegressor ==
    Regressed =>
        LET out(i) == IF i = <<"t", "i", "m", "e">> THEN rate_out ELSE ci_out
        IN  /\ Cardinality(Columns(regress_gdf)) = Len(regress_gdf)
            /\ Columns(regress_gdf) =
                   {prefix \o i : prefix \in {<<"r", "a", "t", "e", "_">>,
                                              <<"s", "i", "g", "_">>,
                                              <<"s", "e", "_">>,
                                              <<"o", "u", "t", "l", "_">>},
                                  i \in Regressors}
                     \cup DistColumns
                     \cup {<<"g", "e", "o", "m", "e", "t", "r", "y">>}
            /\ \A i \in Regressors :
                /\ Value(regress_gdf, <<"r", "a", "t", "e", "_">> \o i) = out(i).slope
                /\ Value(regress_gdf, <<"s", "i", "g", "_">> \o i) = out(i).pvalue
                /\ Value(regress_gdf, <<"s", "e", "_">> \o i) = out(i).stderr
                /\ Value(regress_gdf, <<"o", "u", "t", "l", "_">> \o i) = out(i).outliers
            /\ \A k \in DOMAIN x_years :
                   Value(regress_gdf, <<"d", "i", "s", "t", "_">> \o str(x_years[k]))
                       = points_subset[k]

\* C17 witness: both regressions found a slope and an intercept, over more
\* than two years, and one of them excluded a year.
C17_Witness ==
    /\ Regressed
    /\ Len(x_years) > 2
    /\ ~isnan(rate_out.intercept) /\ ~isnan(ci_out.intercept)
    /\ ~isnan(Value(regress_gdf, <<"r", "a", "t", "e", "_", "s", "o", "i">>))
    /\ Value(regress_gdf, <<"o", "u", "t", "l", "_", "t", "i", "m", "e">>) # << >>


(***************************************************************************)
(* Claims about all_time_stats.                                            *)
(***************************************************************************)
\* The rows of the years at or after initial_year that outl_time does not
\* name; none of them misses its distance, as outl_time names every row
\* that does.
ValidRows ==
    LET named == NamedLabels(Value(regress_gdf,
                                   <<"o", "u", "t", "l", "_", "t", "i", "m", "e">>))
    IN  {i \in DOMAIN x_years :
            /\ x_years[i] >= initial_year
            /\ \A m \in DOMAIN named : named[m] # x_years[i]}

Oldest(rows) == CHOOSE i \in rows : \A j \in rows : x_years[i] <= x_years[j]
Latest(rows) == CHOOSE i \in rows : \A j \in rows : x_years[i] >= x_years[j]

\* C18: nsm is the signed distance of the most recent valid (non-missing,
\* non-outlier) year minus the signed distance of the oldest valid year at
\* or after the initial year; for the series {2020: 0.0, 2010: -50.0} with
\* no outliers nsm is 50.0; when the oldest year is excluded as an outlier
\* the next-oldest valid year is used.
C18_NsmLatestMinusOldest ==
    pc = "stats" =>
        /\ stats_out.nsm = <<points_subset[Latest(ValidRows)][1]
                               - points_subset[Oldest(ValidRows)][1]>>
        /\ x_years = <<2010, 2020>> /\ points_subset = <<<<-50>>, <<0>>>>
              => stats_out.nsm = <<50>>


\* The largest difference of two distances of the rows.
Envelope(rows) ==
    LET hi == CHOOSE i \in rows :
                  \A j \in rows : points_subset[j][1] <= points_subset[i][1]
        lo == CHOOSE i \in rows :
                  \A j \in rows : points_subset[j][1] >= points_subset[i][1]
    IN  points_subset[hi][1] - points_subset[lo][1]

\* C19: all_time_stats counts after outlier exclusion.  For every point with
\* at least one year at or after initial_year that outl_time does not list,
\* valid_obs is the number of such years, valid_span is the latest such year
\* minus the earliest plus one, sce is the maximum minus the minimum
\* distance over those years, and so 1 <= valid_obs <= valid_span and
\* sce >= 0.
C19_CountsAfterOutlierExclusion ==
    pc \in {"stats", "stats_raised"} /\ ValidRows # {} =>
        /\ pc = "stats"
        /\ stats_out.valid_obs = Cardinality(ValidRows)
        /\ stats_out.valid_span = x_years[Latest(ValidRows)]
                                    - x_years[Oldest(ValidRows)] + 1
        /\ stats_out.sce = <<Envelope(ValidRows)>>
        /\ 1 <= stats_out.valid_obs
        /\ stats_out.valid_obs <= stats_out.valid_span
        /\ stats_out.sce[1] >= 0

\* C19 witness: a year before initial_year and a later year that outl_time
\* lists are left out, and the remaining years differ in distance.
C19_Witness ==
    /\ pc = "stats"
    /\ \E i \in DOMAIN x_years : x_years[i] < initial_year
    /\ \E i \in DOMAIN x_years \ ValidRows : x_years[i] >= initial_year
    /\ stats_out.valid_obs = 2
    /\ stats_out.valid_span > 2
    /\ stats_out.sce = <<50>>

(***************************************************************************)
(* contour_certainty.  The mask all_time_mask.tif, sieved and vectorised,  *)
(* is a row of MaskRegions regions from south to north, one degree of      *)
(* latitude apart; a region has the code of its pixels.  A coastline is    *)
(* the set of the regions it crosses, with the same length in each, so the *)
(* latitude of its centroid is the mean latitude of these regions.         *)
(***************************************************************************)
PinatuboLatitude == -23

\* Mutant: a centroid at the latitude itself counts as north of it.
pinatubo_lat_AtOrNorth(row, south) ==
    LET latitudes == [r \in row.geometry |-> south + (r - 1)]
        regions   == sorted(row.geometry)
        total     == Sum([k \in DOMAIN regions |-> latitudes[regions[k]]])
    IN  /\ total >= PinatuboLatitude * Len(regions)
        /\ row.year \in {"1991", "1992"}

\* (centroid.to_crs('EPSG:4326').y > -23) & index.isin(['1991', '1992'])
pinatubo_lat(row, south) ==
    LET latitudes == [r \in row.geometry |-> south + (r - 1)]
        regions   == sorted(row.geometry)
        total     == Sum([k \in DOMAIN regions |-> latitudes[regions[k]]])
    IN  /\ total > PinatuboLatitude * Len(regions)
        /\ row.year \in {"1991", "1992"}

\* contour_certainty(contours_gdf, output_path, uncertain_classes); mask is
\* the raster read from output_path, south the latitude of its region 1.
contour_certainty(contours_gdf_, mask, south, uncertain_classes) ==
    LET uncertain_array == [r \in DOMAIN mask |->
                               IF mask[r] \in uncertain_classes THEN mask[r]
                               ELSE 0]
        \* dissolve('certainty'): one polygon for each code, in their order
        vector_mask == sorted({uncertain_array[r] : r \in DOMAIN mask})
        polygon(i)  == {r \in DOMAIN mask : uncertain_array[r] = i}
        rename(i)   == CASE i = 0 -> "good"
                         [] i = 4 -> "tidal issues"
                         [] i = 5 -> "insufficient data"
        \* gpd.clip: the rows that cross the polygon, cut to it
        crosses(i, row) == row.geometry \cap polygon(i) # {}
        vector_class(i) ==
            LET inside(row) == crosses(i, row)
                rows == SelectSeq(contours_gdf_, inside)
            IN  [k \in DOMAIN rows |->
                    [year |-> rows[k].year,
                     geometry |-> rows[k].geometry \cap polygon(i),
                     certainty |-> rename(i)]]
        RECURSIVE concat(_)
        concat(k) == IF k > Len(vector_mask) THEN << >>
                     ELSE vector_class(vector_mask[k]) \o concat(k + 1)
        class_list == concat(1)
    IN  \* pd.concat(class_list) raises on a list of no tables
        IF class_list = << >>
        THEN [raised |-> "ValueError: No objects to concatenate", gdf |-> << >>]
        ELSE [raised |-> "none",
              gdf |-> [k \in DOMAIN class_list |->
                         IF pinatubo_lat(class_list[k], south)
                         THEN [class_list[k] EXCEPT !.certainty = "aerosol issues"]
                         ELSE class_list[k]]]

\* The default uncertain_classes, the codes a region may have, the years of
\* the coastlines and the latitudes of region 1 that are drawn.
UncertainClasses == {4, 5}
RegionCodes == {0, 1, 4, 5}
CoastlineYears == <<"1990", "1991", "1992">>
SouthLatitudes == {-25, -24, -23}

InitCertainty ==
    /\ pc = "start"
    /\ RasterIdle
    /\ PipelineIdle
    /\ PointsIdle
    /\ MoveIdle
    /\ MadIdle
    /\ StatsIdle
    /\ mask_regions \in [1 .. MaskRegions -> RegionCodes]
    /\ south_latitude \in SouthLatitudes
    /\ \E years \in SUBSET DOMAIN CoastlineYears :
        /\ Cardinality(years) <= MaxCertYears
        /\ \E lines \in [years -> SUBSET (1 .. MaskRegions) \ {{}}] :
            annual_contours =
                LET order == sorted(years)
                IN  [k \in DOMAIN order |->
                        [year |-> CoastlineYears[order[k]],
                         geometry |-> lines[order[k]]]]
    /\ certainty_gdf = << >>

\* contours_gdf = contour_certainty(contours_gdf, output_path=output_dir)
ContourCertainty ==
    /\ pc = "start"
    /\ \E out \in {contour_certainty(annual_contours, mask_regions,
                                      south_latitude, UncertainClasses)} :
           /\ certainty_gdf' = out.gdf
           /\ pc' = IF out.raised = "none" THEN "certain"
                    ELSE "certainty_raised"
    /\ UNCHANGED <<mask_regions, south_latitude, annual_contours>>
    /\ UNCHANGED <<maskVars, oceanVars, temporalVars, contourVars>>
    /\ UNCHANGED <<pointVars, moveVars, madVars, statsVars>>
    /\ UNCHANGED pipelineVars

NextCertainty == ContourCertainty

SpecCertainty == InitCertainty /\ [][NextCertainty]_vars

(***************************************************************************)
(* Claims about contour_certainty.                                         *)
(***************************************************************************)
\* The label of the class of a code of the mask.
ClassLabel(code) ==
    IF code = 4 THEN "tidal issues"
    ELSE IF code = 5 THEN "insufficient data" ELSE "good"

\* The centroid of a segment lies north of the latitude -23.
NorthOfPinatubo(segment) ==
    LET regions  == sorted(segment.geometry)
        north(k) == (south_latitude + regions[k] - 1) + 23
    IN  Sum(SeqOf(north, 1, Len(regions))) > 0

\* C20: every output segment has one certainty label, the label of the class
\* polygon it was clipped by ('good', 'tidal issues' or 'insufficient
\* data'), except that every segment of year 1991 or 1992 whose centroid
\* lies north of latitude -23 is labelled 'aerosol issues' whatever its
\* class was; no segment of another year or south of that latitude gets the
\* 'aerosol issues' label.  Every part of every coastline is in one segment.
C20_ClassLabelOrAerosol ==
    pc = "certain" =>
        /\ \A k \in DOMAIN certainty_gdf :
            LET segment == certainty_gdf[k]
                codes   == {mask_regions[r] : r \in segment.geometry}
            IN  /\ segment.geometry # {}
                /\ \E class \in {"good", "tidal issues", "insufficient data"} :
                    /\ \A code \in codes : ClassLabel(code) = class
                    /\ segment.certainty =
                           IF segment.year \in {"1991", "1992"}
                              /\ NorthOfPinatubo(segment)
                           THEN "aerosol issues" ELSE class
        /\ \A j \in DOMAIN annual_contours : \A r \in annual_contours[j].geometry :
               Cardinality({k \in DOMAIN certainty_gdf :
                               /\ certainty_gdf[k].year = annual_contours[j].year
                               /\ r \in certainty_gdf[k].geometry}) = 1

\* C20 witness: a 1991 segment of the class 'tidal issues' north of -23 is
\* labelled 'aerosol issues', a 1991 segment centred on -23 keeps its class
\* label, and so does a 1990 segment north of -23.
C20_Witness ==
    /\ pc = "certain"
    /\ \E k \in DOMAIN certainty_gdf :
        /\ certainty_gdf[k].year = "1991"
        /\ NorthOfPinatubo(certainty_gdf[k])
        /\ \A r \in certainty_gdf[k].geometry : mask_regions[r] = 4
        /\ certainty_gdf[k].certainty = "aerosol issues"
    /\ \E k \in DOMAIN certainty_gdf :
        /\ certainty_gdf[k].year = "1991"
        /\ certainty_gdf[k].geometry = {1}
        /\ south_latitude = -23
        /\ certainty_gdf[k].certainty = "insufficient data"
    /\ \E k \in DOMAIN certainty_gdf :
        /\ certainty_gdf[k].year = "1990"
        /\ NorthOfPinatubo(certainty_gdf[k])
        /\ certainty_gdf[k].certainty = "tidal issues"

(***************************************************************************)
(* Claims about the boundary years of temporal_masking.                    *)
(***************************************************************************)
LastYear == MaxOf({k[1] : k \in DOMAIN land_ds})

\* The blob of land pixel k has a pixel that is land in year t.
BlobOverlapsYear(k, t) ==
    \E q \in BlobInSlice(k) : land_ds[<<t, q[2], q[3]>>]

\* C27: the missing neighbour of the first and of the last year holds no
\* land: a land blob of the first year is kept iff it overlaps land in the
\* second year, a land blob of the last year is kept iff it overlaps land in
\* the year before, and in a stack of one year every land blob is dropped.
C27_BoundaryYearsTestOneNeighbour ==
    pc = "temporal" =>
        \A k \in DOMAIN land_ds :
            land_ds[k] =>
                /\ (LastYear = 0) => ~temporal_mask[k]
                /\ (LastYear > 0 /\ k[1] = 0) =>
                       (temporal_mask[k] <=> BlobOverlapsYear(k, 1))
                /\ (LastYear > 0 /\ k[1] = LastYear) =>
                       (temporal_mask[k] <=> BlobOverlapsYear(k, LastYear - 1))

(***************************************************************************)
(* Claims about detrending in the regression against a climate index.      *)
(***************************************************************************)
\* Every distance of the point lies on the line fitted against time: the
\* series is linear in the year (slope and intercept count thousandths).
OnTimeTrend ==
    /\ ~isnan(rate_out.slope)
    /\ ~isnan(rate_out.intercept)
    /\ \A i \in DOMAIN x_years :
        /\ ~isnan(points_subset[i])
        /\ 1000 * points_subset[i][1]
               = rate_out.slope[1] * x_years[i] + rate_out.intercept[1]

\* C28: in the regression against a climate index the value removed from a
\* distance is the time trend at the observation's year, so a series that is
\* exactly linear in the year is detrended to zeros whatever the climate
\* values are: the line fitted to it against soi has slope 0 and intercept 0
\* (or none, when soi does not vary over the rows fitted).
C28_LinearSeriesDetrendsToZero ==
    (Regressed /\ OnTimeTrend) =>
        /\ ci_out.raised = "none"
        /\ ci_out.slope \in {<<0>>, np_nan}
        /\ ci_out.intercept \in {<<0>>, np_nan}

(***************************************************************************)
(* outlier_mad near thresh 0.6745, and as change_regress calls it.         *)
(***************************************************************************)
InitOutliers == InitMadRounding \/ InitStats

NextOutliers == NextMad \/ NextStats

SpecOutliers == InitOutliers /\ [][NextOutliers]_vars

(***************************************************************************)
(* Claims about the number of observations outlier_mad flags.              *)
(***************************************************************************)
Flagged == {i \in DOMAIN outliers : outliers[i]}

\* outlier_mad flags at most half of a non-empty array, and nothing of an
\* array of equal values, when thresh is at least least.
AtMostHalfFlagged(least) ==
    (pc = "mad" /\ mad_points # << >> /\ thresh >= least) =>
        /\ Cardinality(Flagged) <= Len(mad_points) \div 2
        /\ (\A i \in DOMAIN mad_points : mad_points[i] = mad_points[1])
               => Flagged = {}

\* change_regress fits on at least half, rounded up, of the rows without a
\* missing value.
FitsOnHalf(out, x) ==
    2 * Len(out.valid_labels) >= Len(x_years) - Cardinality(MissingRows(x))

\* C29 as stated: for every non-empty array and every thresh >= 0.6745
\* outlier_mad flags at most floor(n / 2) observations (none when all values
\* equal the median), so change_regress fits on at least ceil(n / 2) of the n
\* rows without a missing value.
C29_AtMostHalfFromTieThresh ==
    /\ AtMostHalfFlagged(ZScale)
    /\ Regressed => /\ FitsOnHalf(rate_out, YearValues)
                    /\ FitsOnHalf(ci_out, climate_subset)

\* C29 amended: the same for every thresh >= 0.6746, the default 3.5 that
\* change_regress uses among them; at thresh 0.6745 itself an observation
\* exactly as far from the median as the median absolute deviation can score
\* a double above thresh, and more than half can be flagged.
C29_AtMostHalfAboveTieThresh ==
    /\ AtMostHalfFlagged(ZScale + 1)
    /\ Regressed => /\ FitsOnHalf(rate_out, YearValues)
                    /\ FitsOnHalf(ci_out, climate_subset)

\* C29 witness: at thresh 0.6746 outlier_mad has flagged one of [0, 97, 200],
\* whose median absolute deviation is 97.
C29_Witness ==
    /\ pc = "mad"
    /\ thresh = ZScale + 1
    /\ mad_points = <<0, 97, 200>>
    /\ outliers = <<FALSE, FALSE, TRUE>>

(***************************************************************************)
(* contours_preprocess of vector.py, from the annual rasters to the masked *)
(* water index.                                                            *)
(***************************************************************************)
\* The rasters are one row of PrepCols pixels (morphological closing with
\* disk(5) fills every raster of six columns or fewer once it holds a land
\* pixel) for 1 .. PrepYears years.
PrepCols == 7
PrepYears == 2

\* The index_threshold generate_vectors passes by default; the water index
\* is counted in hundredths.
index_threshold == 0

PrepPixels == Pixels(1, PrepCols)
PrepCells(years) == (0 .. years - 1) \X (0 .. 0) \X (0 .. PrepCols - 1)
Cell(t, p) == <<t, p[1], p[2]>>
Pixel(k) == <<k[2], k[3]>>
YearsOf(stack) == {k[1] : k \in DOMAIN stack}

\* The array of f's values, computed once.
Array(f) == f @@ << >>

\* skimage.morphology.binary_erosion(image, selem): a pixel stays set when
\* the structuring element centred on it meets set pixels only; outside the
\* image counts as set (border_value=True).
binary_erosion(image, selem) ==
    [p \in DOMAIN image |->
        \A d \in selem :
            LET q == <<p[1] + d[1], p[2] + d[2]>>
            IN  q \in DOMAIN image => image[q]]

\* skimage.morphology.binary_closing(image, selem): dilation, then erosion.
binary_closing(image, selem) ==
    binary_erosion(Array(binary_dilation(image, selem)), selem)

\* vector.py coastal_masking.  The closing uses disk(5) whatever the value
\* of the closing argument.
coastal_masking(ds_, points, buffer, closing) ==
    _coastal_buffer(
        Array(ocean_masking(
            IF closing # 0 THEN Array(binary_closing(ds_, disk(5))) ELSE ds_,
            points, 1, 0)),
        disk(buffer))

\* (flag).where(~nodata).mean(dim='year') > 0.5: the flag holds in more
\* than half of the years in which the pixel has data.
MeanAboveHalf(flag, yearly) ==
    [p \in PrepPixels |->
        LET valid == {t \in YearsOf(yearly) : yearly[Cell(t, p)].index # np_nan}
            hits  == {t \in valid : flag[Cell(t, p)]}
        IN  2 * Cardinality(hits) > Cardinality(valid)]

\* yearly_ds['stdev'] > 0.25 (stdev in hundredths) and yearly_ds['count'] < 5
HighStdev(yearly) == [k \in DOMAIN yearly |-> yearly[k].stdev > 25]
LowCount(yearly) == [k \in DOMAIN yearly |-> yearly[k].count < 5]

\* yearly_ds.where(yearly_ds['count'] > 5, gapfill_ds): every variable of a
\* pixel-year is taken from the gapfill layers unless its count exceeds 5.
GapfillReplace(yearly, gapfill) ==
    [k \in DOMAIN yearly |-> IF yearly[k].count > 5 THEN yearly[k] ELSE gapfill[k]]

\* (index < index_threshold).where(~landcover_water, False).where(~nodata),
\* with nodata = index.isnull() | waterbody_mask
Thresholded(filled, waterbody, landcover) ==
    [k \in DOMAIN filled |->
        IF filled[k].index = np_nan \/ waterbody[Pixel(k)] THEN np_nan
        ELSE IF landcover[Pixel(k)] THEN <<0>>
        ELSE IF filled[k].index[1] < index_threshold THEN <<1>>
        ELSE <<0>>]

\* ((thresholded_ds != 0) & temporal_mask).mean(dim='year') >= 0.2, where
\* NaN != 0 is True and the mean is over every year of the stack.
AllTimeLand(thresholded, temporal) ==
    [p \in PrepPixels |->
        LET years == YearsOf(thresholded)
            land  == {t \in years : /\ thresholded[Cell(t, p)] # <<0>>
                                    /\ temporal[Cell(t, p)]}
        IN  5 * Cardinality(land) >= Cardinality(years)]

\* (thresholded_ds != 0).groupby('year').apply(lambda x: ocean_masking(x,
\* tide_points_gdf, 1, 3))
AnnualMask(thresholded, points) ==
    LET masks == [t \in YearsOf(thresholded) |->
                    Array(ocean_masking(
                        Array([p \in PrepPixels |-> thresholded[Cell(t, p)] # <<0>>]),
                        points, 1, AnnualDilation))]
    IN  [k \in DOMAIN thresholded |-> masks[k[1]][Pixel(k)]]

\* Mutant: the temporal mask is left out of the final mask.
MaskedIndex_NoTemporal(filled, annual, coastal, temporal) ==
    [k \in DOMAIN filled |->
        IF annual[k] /\ coastal[Pixel(k)] THEN filled[k].index ELSE np_nan]

\* yearly_ds[water_index].where(annual_mask & coastal_mask & temporal_mask)
MaskedIndex(filled, annual, coastal, temporal) ==
    [k \in DOMAIN filled |->
        IF annual[k] /\ coastal[Pixel(k)] /\ temporal[k]
        THEN filled[k].index ELSE np_nan]

\* The annual layers of a coast whose land (index -0.5) lies left of the
\* year's shoreline column and whose water (index 0.5) right of it, with 10
\* observations and a stdev of 0.1; the pixel-years in special carry the
\* anomaly kind: no data, a count of 4 or 5 observations, or a stdev of 0.3.
Coast(shore, special, kind) ==
    [k \in PrepCells(Len(shore)) |->
        [index |-> IF k \in special /\ kind = "nodata" THEN np_nan
                   ELSE IF k[3] < shore[k[1] + 1] THEN <<-50>> ELSE <<50>>,
         count |-> IF k \in special /\ kind = "count4" THEN 4
                   ELSE IF k \in special /\ kind = "count5" THEN 5 ELSE 10,
         stdev |-> IF k \in special /\ kind = "noisy" THEN 30 ELSE 10]]

\* The shoreline columns drawn: no land, one or two land pixels, no water.
Shorelines == {0, 1, 2, PrepCols}

\* The pixel-years an anomaly covers: none, one of the three pixels nearest
\* the land edge of the raster, or a whole year.
Specials(years) ==
    {{}} \cup {{k} : k \in {c \in PrepCells(years) : c[3] <= 2}}
         \cup {{k \in PrepCells(years) : k[1] = t} : t \in 0 .. years - 1}

InitPreprocess ==
    /\ pc = "start"
    /\ \E years \in 1 .. PrepYears :
        /\ \E shore \in [1 .. years -> Shorelines], special \in Specials(years),
              kind \in {"nodata", "count4", "count5", "noisy"} :
            /\ special = {} => kind = "nodata"
            /\ yearly_ds = Coast(shore, special, kind)
        \* the gapfill layers: no data everywhere, or a coast of land (-0.6)
        \* and water (0.6) with one shoreline column for every year
        /\ \E g \in {-1} \cup Shorelines :
            gapfill_ds = [k \in PrepCells(years) |->
                             [index |-> IF g = -1 THEN np_nan
                                        ELSE IF k[3] < g THEN <<-60>> ELSE <<60>>,
                              count |-> 10, stdev |-> 10]]
    \* no mask, a waterbody in column 0, or land cover water in the last column
    /\ \E masks \in {<<{}, {}>>, <<{0}, {}>>, <<{}, {PrepCols - 1}>>} :
        /\ waterbody_mask = [p \in PrepPixels |-> p[2] \in masks[1]]
        /\ landcover_water = [p \in PrepPixels |-> p[2] \in masks[2]]
    /\ tide_points_gdf = {<<2 * (PrepCols - 1), 0>>}
    /\ buffer_pixels \in 1 .. MaxBuffer
    /\ filled_ds = NoRaster
    /\ thresholded_ds = NoRaster
    /\ all_time = NoRaster
    /\ annual_mask = NoRaster
    /\ masked_ds = NoRaster
    /\ all_time_ocean = NoRaster
    /\ persistent_stdev = NoRaster
    /\ persistent_lowobs = NoRaster
    /\ coastal_mask = NoRaster
    /\ all_time_mask = NoRaster
    /\ ds = NoRaster
    /\ connectivity = 0
    /\ dilation = 0
    /\ ocean_mask = NoRaster
    /\ land_ds = NoRaster
    /\ temporal_mask = NoRaster
    /\ ContourIdle
    /\ AnalysisIdle
    /\ RunIdle

\* contours_preprocess of vector.py, whole: the persistent masks, the
\* gapfill replacement, the thresholding, the temporal, coastal and annual
\* masks, the masked index and the all time mask raster it writes.
ContoursPreprocess ==
    /\ pc = "start"
    /\ persistent_stdev' = binary_erosion(MeanAboveHalf(HighStdev(yearly_ds), yearly_ds), disk(2))
    /\ persistent_lowobs' = binary_erosion(MeanAboveHalf(LowCount(yearly_ds), yearly_ds), disk(2))
    /\ \E filled \in {Array(GapfillReplace(yearly_ds, gapfill_ds))} :
       \E thresholded \in {Array(Thresholded(filled, waterbody_mask, landcover_water))} :
       \E temporal \in {Array(temporal_masking(
                          Array([k \in DOMAIN thresholded |-> thresholded[k] = <<1>>])))} :
       \E stable \in {Array(AllTimeLand(thresholded, temporal))} :
       \E coastal \in {Array(coastal_masking(stable, tide_points_gdf, buffer_pixels, 5))} :
       \E annual \in {Array(AnnualMask(thresholded, tide_points_gdf))} :
           /\ filled_ds' = filled
           /\ thresholded_ds' = thresholded
           /\ temporal_mask' = temporal
           /\ all_time' = stable
           /\ coastal_mask' = coastal
           /\ annual_mask' = annual
           /\ masked_ds' = MaskedIndex(filled, annual, coastal, temporal)
           /\ all_time_mask' = AllTimeMaskVector(coastal, persistent_stdev',
                                   persistent_lowobs', waterbody_mask)
    /\ pc' = "preprocessed"
    /\ UNCHANGED <<yearly_ds, gapfill_ds, landcover_water, waterbody_mask,
                   buffer_pixels, all_time_ocean, tide_points_gdf, land_ds>>
    /\ UNCHANGED <<ds, connectivity, dilation, ocean_mask>>
    /\ UNCHANGED <<contourVars, analysisVars, runVars>>

NextPreprocess == ContoursPreprocess

SpecPreprocess == InitPreprocess /\ [][NextPreprocess]_vars


(***************************************************************************)
(* C25, C26, C24: contours_preprocess.                                     *)
(***************************************************************************)
\* C25: a pixel-year's annual values are replaced with the gapfill values
\* if and only if its observation count is below 5, the condition of the
\* low-observation flag; a pixel-year with exactly 5 observations keeps its
\* annual values.
C25_GapfillBelowFive ==
    pc = "preprocessed" =>
        \A k \in DOMAIN yearly_ds :
            filled_ds[k] = IF LowCount(yearly_ds)[k] THEN gapfill_ds[k]
                           ELSE yearly_ds[k]

\* The years in which pixel p has valid data, and those in which it is
\* classified land.
ValidYears(p) ==
    {t \in YearsOf(thresholded_ds) : thresholded_ds[Cell(t, p)] # np_nan}
LandYears(p) ==
    {t \in ValidYears(p) : thresholded_ds[Cell(t, p)] = <<1>> /\ temporal_mask[Cell(t, p)]}

\* C26: a pixel is in the stable all-time land zone if and only if its
\* years classified land divided by its years with valid data is at least
\* 0.2; a year without data counts neither as land nor in the denominator.
C26_StableLandOverValidYears ==
    pc = "preprocessed" =>
        \A p \in DOMAIN all_time :
            ValidYears(p) # {} =>
                (all_time[p] <=>
                    5 * Cardinality(LandYears(p)) >= Cardinality(ValidYears(p)))

\* C24: a pixel-year keeps its water index if and only if it is True in
\* the year's ocean-connectivity mask, the all-time coastal buffer and the
\* year's temporal mask; every other pixel-year is no-data, and a kept
\* value is the gap-filled input value.
C24_KeptWhereAllThreeMasks ==
    pc = "preprocessed" =>
        \A k \in DOMAIN masked_ds :
            IF annual_mask[k] /\ coastal_mask[Pixel(k)] /\ temporal_mask[k]
            THEN masked_ds[k] = filled_ds[k].index
            ELSE masked_ds[k] = np_nan

\* A run that keeps the index of one pixel-year and drops another
\* pixel-year with data that only the temporal mask excludes.
C24_Witness ==
    /\ pc = "preprocessed"
    /\ \E k \in DOMAIN masked_ds :
        /\ annual_mask[k] /\ coastal_mask[Pixel(k)] /\ temporal_mask[k]
        /\ masked_ds[k] # np_nan
    /\ \E k \in DOMAIN masked_ds :
        /\ annual_mask[k] /\ coastal_mask[Pixel(k)] /\ ~temporal_mask[k]
        /\ filled_ds[k].index # np_nan
        /\ masked_ds[k] = np_nan


(***************************************************************************)
(* load_rasters and generate_vectors: one run over a tile.                 *)
(***************************************************************************)
\* A run samples 1 .. MaxRunPoints points; the raster files of a pattern
\* carry at most MaxFileYears of the years in FileYears.
MaxRunPoints == 2
MaxFileYears == 3
FileYears == {1988, 2010, 2018}

\* The start_year and initial_year generate_vectors passes.
RunStartYear == 2000
RunInitialYear == 1988

\* The eight file patterns of load_rasters, in the order it globs them.
LayerTypes == <<".tif", "_gapfill.tif">>
LayerNames == <<"mndwi", "tide_m", "count", "stdev">>
Patterns == {<<t, n>> : t \in 1 .. Len(LayerTypes), n \in 1 .. Len(LayerNames)}

\* The orders glob.glob can return the files of the years S in: it does not
\* sort, so every sequence that lists the years once each.
Listings(S) ==
    {s \in [1 .. Cardinality(S) -> S] :
        \A i, j \in DOMAIN s : i # j => s[i] # s[j]}

\* xr.merge(da_list), the year index of an outer join: the index of the
\* arrays where they all have the same one, in its order, and the sorted
\* union of their indexes otherwise.
merge(da_list) ==
    IF \A i \in DOMAIN da_list : da_list[i].year = da_list[1].year
    THEN da_list[1].year
    ELSE sorted(UNION {{da_list[i].year[j] : j \in DOMAIN da_list[i].year} :
                          i \in DOMAIN da_list})

\* vector.py load_rasters: for each layer type and each layer name, the
\* files matching the pattern (raising when there are none) become one
\* array over their years, in the order glob lists them; the four arrays of
\* a layer type are merged and the dataset is sliced from start_year on.
\* An exception leaves the function with no dataset returned.
load_rasters(paths, start_year) ==
    LET RECURSIVE layers(_, _, _, _)
        layers(t, n, da_list, out) ==
            IF t > Len(LayerTypes) THEN [raised |-> "none", ds_list |-> out]
            ELSE IF n > Len(LayerNames)
            THEN IF sel(merge(da_list), start_year).raised # "none"
                 THEN [raised |-> sel(merge(da_list), start_year).raised,
                       ds_list |-> << >>]
                 ELSE layers(t + 1, 1, << >>,
                          Append(out,
                              [year |-> sel(merge(da_list), start_year).year,
                               layers |-> [i \in DOMAIN da_list |-> da_list[i].name]]))
            ELSE IF paths[<<t, n>>] = << >>
            THEN [raised |-> "ValueError: No rasters found", ds_list |-> << >>]
            ELSE layers(t, n + 1,
                     Append(da_list, [name |-> LayerNames[n], year |-> paths[<<t, n>>]]),
                     out)
    IN  layers(1, 1, << >>, << >>)

\* vector.py rocky_shores_clip: with rocky and non-rocky features the points
\* that intersect the rocky buffer (hit) are removed and the index reset;
\* with non-rocky features only the points are returned as they are; with no
\* non-rocky feature None is returned.
rocky_shores_clip(points, smartline, hit) ==
    IF smartline.rocky > 0 /\ smartline.nonrocky > 0
    THEN GeoDataFrame(SelectSeq(points.rows, LAMBDA pt : pt \notin hit))
    ELSE IF smartline.nonrocky > 0 THEN points
    ELSE None

\* The files of a tile: the patterns of a layer type list the same years in
\* the same order, except for one pattern at most, which matches no file,
\* one file, or lists the years in increasing order.
InitRun ==
    /\ pc = "start"
    /\ \E years \in SetsUpTo(FileYears, MaxFileYears) \ {{}} :
       \E listing \in [1 .. Len(LayerTypes) -> Listings(years)] :
       \E odd \in Patterns :
       \E other \in UNION {Listings(S) : S \in SetsUpTo(FileYears, 1)}
                       \cup {sorted(years), listing[odd[1]]} :
        raster_paths = [k \in Patterns |-> IF k = odd THEN other
                                           ELSE listing[k[1]]]
    /\ config \in [coastal_classification_path : BOOLEAN]
    /\ smartline_gdf \in [rocky : 0 .. 1, nonrocky : 0 .. 1]
    /\ ~config.coastal_classification_path =>
           smartline_gdf = [rocky |-> 0, nonrocky |-> 0]
    /\ ds_list = << >>
    /\ run_contours = << >>
    /\ run_points = None
    /\ artifacts = {}
    /\ run_exception = "none"
    /\ RasterIdle
    /\ PrepIdle
    /\ AnalysisIdle

\* generate_vectors, the call of load_rasters (start_year=2000).
LoadRasters ==
    /\ pc = "start"
    /\ \E out \in {load_rasters(raster_paths, RunStartYear)} :
        /\ ds_list' = out.ds_list
        /\ run_exception' = out.raised
        /\ pc' = IF out.raised = "none" THEN "loaded" ELSE "load_raised"
    /\ UNCHANGED <<raster_paths, config, smartline_gdf, run_contours, run_points,
                   artifacts>>
    /\ UNCHANGED <<maskVars, oceanVars, temporalVars, contourVars, analysisVars,
                   prepVars>>

\* generate_vectors from the output folder to contours_preprocess: the
\* vector and climate data are read (yearly_ds.year.min() raises on a
\* dataset without years; any of the reads may fail) and contours_preprocess,
\* whose .where(count > 5, gapfill) raises unless the annual and the gapfill
\* dataset have the same years, ends by writing all_time_mask.tif.
Preprocess ==
    /\ pc = "loaded"
    /\ \E fails \in BOOLEAN :
        IF fails \/ ds_list[1].year = << >> \/ ds_list[1].year # ds_list[2].year
        THEN /\ pc' = "mask_raised"
             /\ run_exception' = "mask"
             /\ UNCHANGED artifacts
        ELSE /\ pc' = "masked"
             /\ artifacts' = artifacts \cup {"all_time_mask.tif"}
             /\ UNCHANGED run_exception
    /\ UNCHANGED <<raster_paths, config, smartline_gdf, ds_list, run_contours,
                   run_points>>
    /\ UNCHANGED <<maskVars, oceanVars, temporalVars, contourVars, analysisVars,
                   prepVars>>

\* generate_vectors from subpixel_contours to rocky_shores_clip: contour
\* extraction or point sampling may raise; otherwise contours_gdf holds the
\* years a contour was found in (found), and the points sampled on the
\* baseline contour are clipped when a classification is configured.
ExtractContours ==
    /\ pc = "masked"
    /\ \E fails \in BOOLEAN, n \in 1 .. MaxRunPoints, hit \in SUBSET (1 .. MaxRunPoints),
          found \in SUBSET FileYears :
        IF fails
        THEN /\ hit = {} /\ n = 1 /\ found = {}
             /\ pc' = "contours_raised"
             /\ run_exception' = "contours"
             /\ UNCHANGED <<run_contours, run_points>>
        ELSE /\ hit \subseteq 1 .. n
             /\ found # {}
             /\ \A y \in found : \E i \in DOMAIN ds_list[1].year : ds_list[1].year[i] = y
             /\ pc' = "sampled"
             /\ run_contours' = SelectSeq(ds_list[1].year, LAMBDA y : y \in found)
             /\ run_points' = IF config.coastal_classification_path
                              THEN rocky_shores_clip(
                                       GeoDataFrame([i \in 1 .. n |-> i]),
                                       smartline_gdf, hit)
                              ELSE GeoDataFrame([i \in 1 .. n |-> i])
             /\ UNCHANGED run_exception
    /\ UNCHANGED <<raster_paths, config, smartline_gdf, ds_list, artifacts>>
    /\ UNCHANGED <<maskVars, oceanVars, temporalVars, contourVars, analysisVars,
                   prepVars>>

\* The files of the point statistics and of the annual shorelines, in the
\* order they are written, and the first k of them.
StatsFiles == <<"ratesofchange.geojson", "ratesofchange.shp">>
ContourFiles == <<"annualshorelines.geojson", "annualshorelines.shp">>
Written(files, k) == {files[i] : i \in 1 .. k}

\* generate_vectors, 'Export stats': points_gdf is clipped to the rows that
\* intersect the grid cell (inside), then written as GeoJSON, then as a
\* shapefile; to_file may raise, which leaves the files written before it.
ExportStats(inside, k) ==
    /\ run_points' = GeoDataFrame(SelectSeq(run_points.rows, LAMBDA pt : pt \in inside))
    /\ artifacts' = artifacts \cup Written(StatsFiles, k)
    /\ IF k < Len(StatsFiles)
       THEN pc' = "stats_raised" /\ run_exception' = "to_file"
       ELSE pc' = "stats_exported" /\ UNCHANGED run_exception

\* generate_vectors, 'if points_gdf is not None': annual_movements,
\* calculate_regressions and all_time_stats (initial_year=1988) over the
\* years of contours_gdf, then the export of the point statistics.  The
\* statistics are followed for one row: the first of the rows exported, or
\* the first row where none is exported.  A table of zero rows is not None:
\* the stages run on it, and either one of them raises or the empty table
\* goes on to the export.
PointStatistics ==
    /\ pc = "sampled"
    /\ IF run_points = None
       THEN /\ pc' = "stats_skipped"
            /\ UNCHANGED <<run_points, artifacts, run_exception, statsVars>>
       ELSE IF run_points.rows = << >>
       THEN /\ \E raises \in BOOLEAN, k \in 0 .. Len(StatsFiles) :
                IF raises
                THEN /\ k = 0
                     /\ pc' = "stats_raised"
                     /\ run_exception' = "statistics"
                     /\ UNCHANGED <<run_points, artifacts>>
                ELSE ExportStats({}, k)
            /\ UNCHANGED statsVars
       ELSE \E dists \in [DOMAIN run_contours -> DistValues] :
            \E out \in {calculate_regressions(dists, run_contours,
                            [i \in DOMAIN run_contours |-> <<Soi(run_contours[i])>>])} :
            \E stats \in {IF out.raised # "none" THEN [raised |-> out.raised]
                          ELSE all_time_stats(out.gdf, <<"d", "i", "s", "t", "_">>,
                                              RunInitialYear)} :
                /\ x_years' = run_contours
                /\ points_subset' = dists
                /\ climate_subset' = [i \in DOMAIN x_years' |-> <<Soi(x_years'[i])>>]
                /\ rate_out' = out.rate_out
                /\ ci_out' = out.ci_out
                /\ regress_gdf' = out.gdf
                /\ initial_year' = RunInitialYear
                /\ stats_out' = stats
                /\ IF stats.raised # "none"
                   THEN /\ pc' = "stats_raised"
                        /\ run_exception' = stats.raised
                        /\ UNCHANGED <<run_points, artifacts>>
                   ELSE \E inside \in SUBSET (1 .. MaxRunPoints),
                           k \in 0 .. Len(StatsFiles) :
                            /\ \A pt \in inside :
                                   \E i \in DOMAIN run_points.rows : run_points.rows[i] = pt
                            /\ ExportStats(inside, k)
    /\ UNCHANGED <<raster_paths, config, smartline_gdf, ds_list, run_contours>>
    /\ UNCHANGED <<maskVars, oceanVars, temporalVars, contourVars, prepVars>>
    /\ UNCHANGED <<pointVars, moveVars, madVars, certaintyVars>>

\* The mask of a run, all_time_mask.tif sieved and vectorised, is a row of
\* RunRegions regions with codes among RunCodes, its region 1 at the
\* latitude RunSouth; the contour of each year crosses one region or more.
RunRegions == 2
RunCodes == {0, 4}
RunSouth == -25

\* contours_gdf as contour_certainty takes it: a row for each year, indexed
\* by the year as a string, crossing the regions lines[i].
RunContours(years, lines) ==
    [i \in DOMAIN years |-> [year |-> ToString(years[i]), geometry |-> lines[i]]]

\* The years of the rows of a table of contours, in the order of its rows.
IndexYears(gdf) ==
    [k \in DOMAIN gdf |-> CHOOSE y \in FileYears : ToString(y) = gdf[k].year]

\* What contour_certainty gives of a table: the exception it raises and the
\* years of the rows it returns.
CertaintyYears(out) == [raised |-> out.raised, year |-> IndexYears(out.gdf)]

\* contour_certainty(contours_gdf, output_path=output_dir) on the contours
\* of the years given, for each mask and each crossing of the regions by
\* the contour of each year.
RunCertainty(years) ==
    {CertaintyYears(contour_certainty(RunContours(years, lines), mask,
                                       RunSouth, UncertainClasses)) :
        mask \in [1 .. RunRegions -> RunCodes],
        lines \in [DOMAIN years -> SUBSET (1 .. RunRegions) \ {{}}]}

\* The annual shoreline files are written, the GeoJSON before the
\* shapefile; to_file may raise after the first k of them.
ExportShorelines(k) ==
    /\ artifacts' = artifacts \cup Written(ContourFiles, k)
    /\ IF k < Len(ContourFiles)
       THEN pc' = "export_raised" /\ run_exception' = "to_file"
       ELSE pc' = "exported" /\ UNCHANGED run_exception

\* generate_vectors, 'Export contours': contours_gdf becomes the table of
\* contour_certainty (which reads all_time_mask.tif and may raise), with a
\* row for each class a contour crosses; then the annual shoreline files
\* are written.
ExportContours ==
    /\ pc \in {"stats_skipped", "stats_exported"}
    /\ \E fails \in BOOLEAN, k \in 0 .. Len(ContourFiles) :
        IF fails
        THEN /\ k = 0
             /\ pc' = "export_raised"
             /\ run_exception' = "certainty"
             /\ UNCHANGED <<artifacts, run_contours>>
        ELSE \E out \in RunCertainty(run_contours) :
                IF out.raised # "none"
                THEN /\ k = 0
                     /\ pc' = "export_raised"
                     /\ run_exception' = out.raised
                     /\ UNCHANGED <<artifacts, run_contours>>
                ELSE /\ run_contours' = out.year
                     /\ ExportShorelines(k)
    /\ UNCHANGED <<raster_paths, config, smartline_gdf, ds_list, run_points>>
    /\ UNCHANGED <<maskVars, oceanVars, temporalVars, contourVars, analysisVars,
                   prepVars>>

NextRun ==
    LoadRasters \/ Preprocess \/ ExtractContours \/ PointStatistics \/ ExportContours

SpecRun == InitRun /\ [][NextRun]_vars


(***************************************************************************)
(* C23, C30, C21, C22: a run of generate_vectors.                          *)
(***************************************************************************)
\* C23: load_rasters fails with the 'No rasters found' error when any one
\* of its eight file patterns matches no file, and then returns no dataset;
\* when it returns, all eight patterns matched a file and it returns the
\* annual and the gapfill dataset with their four layers each.
C23_NoRastersFoundOrAllEight ==
    pc # "start" =>
        IF \E k \in Patterns : raster_paths[k] = << >>
        THEN /\ pc = "load_raised"
             /\ run_exception = "ValueError: No rasters found"
             /\ ds_list = << >>
        ELSE pc # "load_raised" =>
                /\ Len(ds_list) = Len(LayerTypes)
                /\ \A i \in DOMAIN ds_list : ds_list[i].layers = LayerNames

\* The run computed the statistics of its points and exported a row: the
\* statistics followed are those of an exported row.
StatsExported ==
    /\ pc \in {"stats_exported", "exported", "export_raised"}
    /\ run_points.rows # << >>

\* C30: the initial year passed to all_time_stats is one of the years
\* loaded by load_rasters, so every exported point whose earliest loaded
\* year is a valid (non-missing, non-outlier) observation has a non-missing
\* nsm.
C30_InitialYearIsLoaded ==
    StatsExported =>
        /\ \E i \in DOMAIN x_years : x_years[i] = initial_year
        /\ 1 \in ValidRows => stats_out.nsm # np_nan

\* C21: no output file (all_time_mask.tif, the ratesofchange files, the
\* annualshorelines files) is written before every stage of the run has
\* completed, so a run that fails in any stage leaves no file.
C21_NoArtifactBeforeCompletion ==
    pc # "exported" => artifacts = {}

\* C22: when no point survives rocky_shores_clip, whether it returns None
\* or a table of zero rows, the movement, regression and statistics stages
\* and the export of the point statistics are skipped (no ratesofchange file
\* is written), and the run goes on to the contour certainty and the
\* contour export.
C22_NoPointsSkipsStatistics ==
    [][(pc = "sampled" /\ run_points.rows = << >>) =>
           (pc' = "stats_skipped" /\ artifacts' = artifacts)]_vars

=============================================================================
